---- MODULE Spec2Model ----
(***************************************************************************)
(* Model of the offchain service of the supply-chain tracker:              *)
(*   - the Local Ledger (local_blockchain.rs): LocalBlockchain and its     *)
(*     thread-safe wrapper LocalBlockchainClient;                          *)
(*   - the workflow orchestrator (workflows.rs): SupplyChainWorkflow;     *)
(*   - the farmer directory (farmer_verification.rs) and the handlers     *)
(*     that consult it (supply_chain_handlers.rs).                        *)
(* The parts share no state; each has its own specifications.              *)
(***************************************************************************)
EXTENDS Integers, Sequences, FiniteSets, TLC

(***************************************************************************)
(* Bounds of the model.                                                    *)
(***************************************************************************)
MaxBlocks == 3
MaxClock == 1
MaxCheckpoints == 2
MaxPackages == 2
MaxCrashes == 1
MaxFarmers == 3

Procs == {1, 2}
Keys == {"b1", "b2"}
Farmers == {"f1", "f2"}

\* the purchases requested in the model, as <<batch_id, farmer_did, ipfs_cid>>:
\* two farmers sell into batch b1, one of them also into batch b2
Purchases == {<<"b1", "f1", "c1">>, <<"b1", "f2", "c2">>, <<"b2", "f1", "c1">>}
Cids == {"c1", "c2"}
Payloads == {"d1"}

VARIABLES
  blocks,         \* LocalBlockchain.blocks : Vec<Block>
  batch_history,  \* LocalBlockchain.batch_history : HashMap<String, Vec<String>>
  disk,           \* the file local_blockchain.json
  clock,          \* the wall clock read by Utc::now()
  rw_writer,      \* holder of the RwLock's write guard (0: none)
  lpc,            \* position of each caller of LocalBlockchainClient::add_fpo_purchase
  local,          \* the caller's arguments and local variables
  result,         \* the value the call returns to the caller
  acked,          \* block hashes of the appends that returned Ok
  failed,         \* block hashes of the appends that returned Err
  appends         \* the number of calls of add_fpo_purchase made so far

ledgerVars == <<blocks, batch_history, disk, clock, rw_writer, lpc, local,
                result, acked, failed, appends>>

Readers == {1, 2}

VARIABLES
  up,          \* a LocalBlockchainClient exists: the process runs and load succeeded
  crashes,     \* the number of crashes of the process so far
  rw_readers,  \* holders of read guards of the RwLock
  rpc          \* per reader: the read call in progress

clientVars == <<up, crashes, rw_readers, rpc>>

(***************************************************************************)
(* Option<T>: None is <<>>, Some(x) is <<x>>.                              *)
(***************************************************************************)
None == <<>>
Some(x) == <<x>>

Last(s) == s[Len(s)]

(***************************************************************************)
(* Sha256 over the serialized block content, taken as collision free: the  *)
(* digest of a value is the tagged value.                                  *)
(***************************************************************************)
calculate_hash(block_data) == <<"sha256", block_data>>

generate_block_id(nanos) == <<"BLK", nanos>>

NoFile == [kind |-> "absent"]
TornFile == [kind |-> "torn"]
FileOf(bs, bh) == [kind |-> "ledger", blocks |-> bs, batch_history |-> bh]

NoLocal == [batch_id |-> "", farmer_did |-> "", ipfs_cid |-> "",
            transaction_data |-> "", block |-> None]
NoResult == [kind |-> "none"]
NoRead == [op |-> "idle"]

\* LocalBlockchain::new and the state before any request
LedgerInit ==
  /\ blocks = <<>>
  /\ batch_history = <<>>
  /\ disk = NoFile
  /\ clock = 0
  /\ rw_writer = 0
  /\ lpc = [p \in Procs |-> "idle"]
  /\ local = [p \in Procs |-> NoLocal]
  /\ result = [p \in Procs |-> NoResult]
  /\ acked = {}
  /\ failed = {}
  /\ appends = 0
  /\ up = TRUE
  /\ crashes = 0
  /\ rw_readers = {}
  /\ rpc = [r \in Readers |-> NoRead]

\* a reading of Utc::now(): the clock does not go back, and two readings
\* may fall on the same value
Ticks == {t \in clock..MaxClock : t <= clock + 1}

\* a request reaches LocalBlockchainClient::add_fpo_purchase with its arguments
CallAppend(p) ==
  /\ up
  /\ lpc[p] = "idle"
  /\ appends < MaxBlocks
  /\ appends' = appends + 1
  /\ \E bf \in Purchases, d \in Payloads :
       local' = [local EXCEPT ![p] = [batch_id |-> bf[1], farmer_did |-> bf[2],
                                      ipfs_cid |-> bf[3], transaction_data |-> d,
                                      block |-> None]]
  /\ lpc' = [lpc EXCEPT ![p] = "wait"]
  /\ UNCHANGED <<blocks, batch_history, disk, clock, rw_writer, result, acked, failed>>

\* the write guard of the RwLock is granted only when nobody holds it
WriteLockBroken(w, p) == TRUE

WriteLockFree(w, p) == w = 0

\* self.blockchain.write().await: granted when no write guard and no read
\* guard is held
AcquireWrite(p) ==
  /\ lpc[p] = "wait"
  /\ WriteLockFree(rw_writer, p)
  /\ rw_readers = {}
  /\ rw_writer' = p
  /\ lpc' = [lpc EXCEPT ![p] = "compute"]
  /\ UNCHANGED <<blocks, batch_history, disk, clock, local, result, acked, failed, appends>>

\* the predecessor of the new block: the last hash filed under the key
PreviousBlockHash(bh, batch_id) ==
  IF batch_id \in DOMAIN bh /\ Len(bh[batch_id]) > 0
  THEN Some(Last(bh[batch_id]))
  ELSE None

NextVersionNoIncrement(bh, batch_id) ==
  IF batch_id \in DOMAIN bh THEN Len(bh[batch_id]) ELSE 1

\* the version of the new block
NextVersion(bh, batch_id) ==
  IF batch_id \in DOMAIN bh THEN Len(bh[batch_id]) + 1 ELSE 1

\* the JSON value that is hashed
BlockContent(block_id, prev, ts, batch_id, farmer_did, ipfs_cid, version, data) ==
  [block_id |-> block_id, previous_block_hash |-> prev, timestamp |-> ts,
   transaction_type |-> "fpo_purchase", batch_id |-> batch_id,
   farmer_did |-> farmer_did, ipfs_cid |-> ipfs_cid, version |-> version,
   transaction_data |-> data]

MakeBlock(block_id, prev, ts, batch_id, farmer_did, ipfs_cid, version, data) ==
  [block_id |-> block_id, previous_block_hash |-> prev, timestamp |-> ts,
   transaction_type |-> "fpo_purchase", batch_id |-> batch_id,
   farmer_did |-> farmer_did, transaction_data |-> data,
   block_hash |-> calculate_hash(BlockContent(block_id, prev, ts, batch_id,
                                   farmer_did, ipfs_cid, version, data)),
   version |-> version]

\* LocalBlockchain::add_fpo_purchase, lines 81-119: build the block; t1 is
\* the clock reading of generate_block_id, t2 the one of line 92, which in
\* the model falls on the same value
ComputeBlock(p) ==
  /\ lpc[p] = "compute"
  /\ \E t1 \in Ticks :
       \E t2 \in {t1} :
         /\ clock' = t2
         /\ local' = [local EXCEPT ![p].block =
              Some(MakeBlock(generate_block_id(t1),
                             PreviousBlockHash(batch_history, local[p].batch_id),
                             t2, local[p].batch_id, local[p].farmer_did,
                             local[p].ipfs_cid,
                             NextVersion(batch_history, local[p].batch_id),
                             local[p].transaction_data))]
  /\ lpc' = [lpc EXCEPT ![p] = "push"]
  /\ UNCHANGED <<blocks, batch_history, disk, rw_writer, result, acked, failed, appends>>

PushHistoryNewKeysOnly(bh, batch_id, h) ==
  IF batch_id \in DOMAIN bh
  THEN bh
  ELSE [k \in DOMAIN bh \cup {batch_id} |->
          IF k = batch_id THEN <<h>> ELSE bh[k]]

PushHistoryUnderEveryKey(bh, batch_id, h) ==
  [k \in DOMAIN bh \cup {batch_id} |->
     IF k \in DOMAIN bh THEN Append(bh[k], h) ELSE <<h>>]

\* batch_history.entry(batch_id).or_insert_with(Vec::new).push(block_hash)
PushHistory(bh, batch_id, h) ==
  IF batch_id \in DOMAIN bh
  THEN [bh EXCEPT ![batch_id] = Append(@, h)]
  ELSE [k \in DOMAIN bh \cup {batch_id} |->
          IF k = batch_id THEN <<h>> ELSE bh[k]]

PushEntryOverLast(bs, b) ==
  IF bs = <<>> THEN <<b>> ELSE [bs EXCEPT ![Len(bs)] = b]

\* self.blocks.push(block)
PushEntry(bs, b) == Append(bs, b)

\* LocalBlockchain::add_fpo_purchase, lines 121-128: append in memory
PushBlock(p) ==
  /\ lpc[p] = "push"
  /\ blocks' = PushEntry(blocks, local[p].block[1])
  /\ batch_history' = PushHistory(batch_history, local[p].batch_id,
                                  local[p].block[1].block_hash)
  /\ lpc' = [lpc EXCEPT ![p] = "save"]
  /\ UNCHANGED <<disk, clock, rw_writer, local, result, acked, failed, appends>>

BlockReceipt(b) ==
  [kind |-> "ok", block_hash |-> b.block_hash, block_id |-> b.block_id,
   version |-> b.version, is_update |-> b.previous_block_hash # None]

ErrResult(b) == [kind |-> "err", block_hash |-> b.block_hash]

SavedFileStale(bs, bh) == FileOf(SubSeq(bs, 1, Len(bs) - 1), bh)

\* LocalBlockchain::save when fs::write succeeds: the whole ledger is written
SavedFile(bs, bh) == FileOf(bs, bh)

\* LocalBlockchain::add_fpo_purchase, lines 130-148: save, then the receipt
SaveOk(p) ==
  /\ lpc[p] = "save"
  /\ disk' = SavedFile(blocks, batch_history)
  /\ result' = [result EXCEPT ![p] = BlockReceipt(local[p].block[1])]
  /\ lpc' = [lpc EXCEPT ![p] = "ret"]
  /\ UNCHANGED <<blocks, batch_history, clock, rw_writer, local, acked, failed, appends>>

\* LocalBlockchain::add_fpo_purchase, line 131, when fs::write fails: the
\* file is untouched (the open failed) or left torn (the write failed); the
\* ? operator returns the error at once, blocks and batch_history keep the
\* pushed block
SaveFail(p) ==
  /\ lpc[p] = "save"
  /\ \E torn \in BOOLEAN : disk' = IF torn THEN TornFile ELSE disk
  /\ result' = [result EXCEPT ![p] = ErrResult(local[p].block[1])]
  /\ lpc' = [lpc EXCEPT ![p] = "ret"]
  /\ UNCHANGED <<blocks, batch_history, clock, rw_writer, local, acked, failed, appends>>

\* the call returns: the write guard is dropped, the caller has the result
ReturnAppend(p) ==
  /\ lpc[p] = "ret"
  /\ rw_writer' = IF rw_writer = p THEN 0 ELSE rw_writer
  /\ acked' = IF result[p].kind = "ok"
              THEN acked \cup {result[p].block_hash} ELSE acked
  /\ failed' = IF result[p].kind = "err"
               THEN failed \cup {result[p].block_hash} ELSE failed
  /\ lpc' = [lpc EXCEPT ![p] = "idle"]
  /\ local' = [local EXCEPT ![p] = NoLocal]
  /\ result' = [result EXCEPT ![p] = NoResult]
  /\ UNCHANGED <<blocks, batch_history, disk, clock, appends>>

\* the steps of a call of LocalBlockchainClient::add_fpo_purchase once made
AppendBody(p) ==
  \/ AcquireWrite(p)
  \/ ComputeBlock(p)
  \/ PushBlock(p)
  \/ SaveOk(p)
  \/ SaveFail(p)
  \/ ReturnAppend(p)

\* the steps of caller p of LocalBlockchainClient::add_fpo_purchase
AppendStep(p) ==
  \/ CallAppend(p)
  \/ AppendBody(p)

LedgerNext == \E p \in Procs : AppendStep(p)

get_batch_history_first_of_key(bs, bh, batch_id) ==
  IF batch_id \in DOMAIN bh
  THEN LET found == {i \in 1..Len(bs) : bs[i].batch_id = batch_id}
           first == CHOOSE i \in found : \A j \in found : i <= j
       IN [n \in 1..Len(bh[batch_id]) |-> bs[first]]
  ELSE <<>>

\* LocalBlockchain::get_batch_history
get_batch_history(bs, bh, batch_id) ==
  IF batch_id \in DOMAIN bh
  THEN LET found(h) == {i \in 1..Len(bs) : bs[i].block_hash = h}
           first(h) == CHOOSE i \in found(h) : \A j \in found(h) : i <= j
           RECURSIVE collect(_)
           collect(hs) ==
             IF hs = <<>> THEN <<>>
             ELSE (IF found(hs[1]) = {} THEN <<>> ELSE <<bs[first(hs[1])]>>)
                  \o collect(Tail(hs))
       IN collect(bh[batch_id])
  ELSE <<>>

get_first_block_for_batch(bs, bh, batch_id) ==
  LET h == get_batch_history(bs, bh, batch_id)
  IN IF h = <<>> THEN None ELSE Some(h[1])

\* LocalBlockchain::get_latest_block_for_batch
get_latest_block_for_batch(bs, bh, batch_id) ==
  LET h == get_batch_history(bs, bh, batch_id)
  IN IF h = <<>> THEN None ELSE Some(Last(h))

verify_farmer_in_last_block(bs, farmer_did) ==
  bs # <<>> /\ bs[Len(bs)].farmer_did = farmer_did

\* LocalBlockchain::verify_farmer_exists
verify_farmer_exists(bs, farmer_did) ==
  \E i \in 1..Len(bs) : bs[i].farmer_did = farmer_did

\* LocalBlockchain::get_block_by_hash: the first entry with this hash
get_block_by_hash(bs, block_hash) ==
  LET found == {i \in 1..Len(bs) : bs[i].block_hash = block_hash}
  IN IF found = {} THEN None
     ELSE Some(bs[CHOOSE i \in found : \A j \in found : i <= j])

\* LocalBlockchain::get_blockchain_stats
get_blockchain_stats(bs, bh) ==
  [total_blocks |-> Len(bs),
   unique_batches |-> Cardinality(DOMAIN bh),
   unique_farmers |-> Cardinality({bs[i].farmer_did : i \in 1..Len(bs)}),
   last_block_time |-> IF bs = <<>> THEN None ELSE Some(Last(bs).timestamp)]

\* the read methods of LocalBlockchainClient
ReadOps == {"verify_farmer", "get_batch_history", "get_stats"}

ReadLockBroken(w) == TRUE

\* a read guard of the RwLock is granted when no write guard is held
ReadLockFree(w) == w = 0

\* LocalBlockchainClient::verify_farmer, get_batch_history, get_stats:
\* self.blockchain.read().await, then the read on the guarded ledger
AcquireRead(r) ==
  /\ up
  /\ rpc[r] = NoRead
  /\ ReadLockFree(rw_writer)
  /\ rw_readers' = rw_readers \cup {r}
  /\ \E op \in ReadOps : rpc' = [rpc EXCEPT ![r] = [op |-> op]]

\* the read call returns: the read guard is dropped
ReturnRead(r) ==
  /\ rpc[r] # NoRead
  /\ rw_readers' = rw_readers \ {r}
  /\ rpc' = [rpc EXCEPT ![r] = NoRead]

ReadFrameInsertingKeys ==
  /\ UNCHANGED <<blocks, disk>>
  /\ batch_history' = [k \in Keys |-> IF k \in DOMAIN batch_history
                                      THEN batch_history[k] ELSE <<>>]

\* lines 151-184: the read methods take &self and call nothing that writes;
\* the entries, the index and the file stay as they are
ReadFrame == UNCHANGED <<blocks, batch_history, disk>>

\* the steps of read call r
ReadCall(r) ==
  /\ AcquireRead(r) \/ ReturnRead(r)
  /\ ReadFrame

ReadNext == \E r \in Readers : ReadCall(r)

\* what a read step leaves alone besides the ledger
readFrameVars == <<clock, rw_writer, lpc, local, result, acked, failed, appends>>

load_without_index(file) ==
  CASE file.kind = "absent" -> [kind |-> "ok", blocks |-> <<>>, batch_history |-> <<>>]
    [] file.kind = "ledger" -> [kind |-> "ok", blocks |-> file.blocks,
                                batch_history |-> <<>>]
    [] file.kind = "torn" -> [kind |-> "err"]

\* LocalBlockchain::load: no file gives the empty ledger, a file written
\* whole gives the ledger it holds, a torn file does not parse
load(file) ==
  CASE file.kind = "absent" -> [kind |-> "ok", blocks |-> <<>>, batch_history |-> <<>>]
    [] file.kind = "ledger" -> [kind |-> "ok", blocks |-> file.blocks,
                                batch_history |-> file.batch_history]
    [] file.kind = "torn" -> [kind |-> "err"]

\* the file a crash leaves: fs::write truncates the file and then writes the
\* new content, so a crash during save leaves the file as it was (not yet
\* opened) or torn; a crash at any other point leaves it as it is
CrashFiles ==
  IF \E p \in Procs : lpc[p] = "save" THEN {disk, TornFile} ELSE {disk}

\* the process dies: the in-memory ledger, the guards and the calls in
\* progress are gone; the file, the clock and what the callers were told stay
Crash ==
  /\ up
  /\ crashes < MaxCrashes
  /\ crashes' = crashes + 1
  /\ up' = FALSE
  /\ \E f \in CrashFiles : disk' = f
  /\ blocks' = <<>>
  /\ batch_history' = <<>>
  /\ rw_writer' = 0
  /\ lpc' = [p \in Procs |-> "idle"]
  /\ local' = [p \in Procs |-> NoLocal]
  /\ result' = [p \in Procs |-> NoResult]
  /\ rw_readers' = {}
  /\ rpc' = [r \in Readers |-> NoRead]
  /\ UNCHANGED <<clock, acked, failed, appends>>

\* LocalBlockchainClient::new in a new process: the ledger is what load
\* returns; when load fails no client is created
Start ==
  /\ ~up
  /\ load(disk).kind = "ok"
  /\ up' = TRUE
  /\ blocks' = load(disk).blocks
  /\ batch_history' = load(disk).batch_history
  /\ UNCHANGED <<disk, clock, rw_writer, lpc, local, result, acked, failed,
                 appends, crashes, rw_readers, rpc>>

CrashNext == Crash \/ Start

(***************************************************************************)
(* The workflow orchestrator (workflows.rs).  Each run of                  *)
(* execute_full_workflow is a sequential task; the tasks interleave at     *)
(* their external calls.  The request body is fixed when the run starts;   *)
(* the model draws a field of it when the code first reads it.             *)
(***************************************************************************)
Runs == {1, 2}
\* the values rand::random() may return, as 32-byte values
Nonces == {<<"random", 1>>, <<"random", 2>>}
Products == {"p1", "p2"}

\* data.processing.output_products[0].product_id of the request of run r
ProductId(r) == IF r = 1 THEN "p1" ELSE "p2"

VARIABLES
  wrun,     \* per run: position, request fields read so far, loop index,
            \* locals, the WorkflowResult under construction, the response
  calls,    \* per run: the external calls it has made, in order
  chain,    \* per run: its transactions accepted by the authoritative ledger
  ipfs,     \* per run: its uploads pinned by the content store
  folders   \* the evidence folders data/<id> on the local file system

wfVars == <<wrun, calls, chain, ipfs, folders>>

VARIABLES
  mobile_to_did,  \* FarmerVerificationService: mobile number -> farmer DID
  did_to_farmer,  \* FarmerVerificationService: farmer DID -> FarmerEntry
  db_file,        \* the file data/farmers_db.json
  fv_lock,        \* the holder of the Mutex around the service, 0 if free
  upc             \* per request of upload_farmer_ipfs_data: position and locals

dirVars == <<mobile_to_did, did_to_farmer, db_file, fv_lock, upc>>

VARIABLES
  added,          \* the entries passed to add_farmer, in call order
  hreq            \* per handler task: the request, its position, its external
                  \* calls and its response

svcVars == <<added, hreq>>

vars == <<blocks, batch_history, disk, clock, rw_writer, lpc, local, result,
          acked, failed, appends, up, crashes,
          rw_readers, rpc, wrun, calls, chain, ipfs, folders,
          mobile_to_did, did_to_farmer, db_file, fv_lock, upc,
          added, hreq>>

\* chain.rs: keccak256, taken as collision free
keccak256(bytes) == <<"keccak256", bytes>>
hash_string(str) == keccak256(str)
hash_bytes(data) == keccak256(data)

generate_commit_hash_without_nonce(reveal_hash, nonce) ==
  keccak256(<<reveal_hash, reveal_hash>>)

generate_commit_hash_swapped(reveal_hash, nonce) == keccak256(<<nonce, reveal_hash>>)

\* keccak256 of the 64 bytes reveal_hash followed by nonce
generate_commit_hash(reveal_hash, nonce) == keccak256(<<reveal_hash, nonce>>)

\* the content store is content addressed
CidOf(content) == <<"cid", content>>

\* batch_folder
batch_folder(batch_id) == <<"data", batch_id>>

FolderIds == Keys \cup Products

\* the WorkflowResult of lines 212-239, reduced to its summary and the
\* presence of the optional fields
NewResult ==
  [successful_stages |-> 0, total_transactions |-> 0, total_ipfs_uploads |-> 0,
   total_stages |-> 7, ai_commit_tx |-> FALSE, ai_reveal_tx |-> FALSE,
   ai_metadata |-> FALSE, final_skus |-> <<>>]

NoInput ==
  [farmer_did_ok |-> None, batch_id |-> None, checkpoints |-> None,
   output_products |-> None, total_packages |-> None, ai_scoring |-> None]

NoLocals == [cid |-> None, nonce |-> None, txs |-> 0, skus |-> <<>>]

NoResponse == [kind |-> "none"]

NewRun ==
  [pc |-> "start", input |-> NoInput, idx |-> 0, loc |-> NoLocals,
   result |-> NewResult, response |-> NoResponse]

WorkflowInit ==
  /\ wrun = [r \in Runs |-> NewRun]
  /\ calls = [r \in Runs |-> <<>>]
  /\ chain = [r \in Runs |-> <<>>]
  /\ ipfs = [r \in Runs |-> <<>>]
  /\ folders = [f \in FolderIds |-> <<>>]

\* the stages in the order execute_full_workflow calls them: the position
\* at which each stage function starts
StageEntrySwapped(stage) ==
  CASE stage = 1 -> "reg_upload"
    [] stage = 2 -> "wh_upload"
    [] stage = 3 -> "fpo_write"
    [] stage = 4 -> "lg_loop"
    [] stage = 5 -> "pr_write"
    [] stage = 6 -> "pk_loop"
    [] stage = 7 -> "ai_test"

StageEntry(stage) ==
  CASE stage = 1 -> "reg_upload"
    [] stage = 2 -> "fpo_write"
    [] stage = 3 -> "wh_upload"
    [] stage = 4 -> "lg_loop"
    [] stage = 5 -> "pr_write"
    [] stage = 6 -> "pk_loop"
    [] stage = 7 -> "ai_test"

\* http_handlers::execute_workflow, lines 835-843: the error becomes a 500
\* response whose body is the Display of the error, i.e. its outermost context
ErrorResponse(msg) ==
  [kind |-> "err", status |-> 500, error |-> <<"Workflow failed: ", msg>>]

\* the ? operator: the stage function and execute_full_workflow return the
\* error at once; the WorkflowResult is dropped, nothing else is done
AbortAndFinish(r, msg) ==
  /\ wrun' = [wrun EXCEPT ![r].pc = "finish"]
  /\ UNCHANGED chain

AbortAndUndo(r, msg) ==
  /\ wrun' = [wrun EXCEPT ![r].pc = "failed", ![r].response = ErrorResponse(msg)]
  /\ chain' = [chain EXCEPT ![r] = <<>>]

Abort(r, msg) ==
  /\ wrun' = [wrun EXCEPT ![r].pc = "failed", ![r].response = ErrorResponse(msg)]
  /\ UNCHANGED chain

\* the record of an external call of run r
Call(r, stage, target, op, ok) ==
  calls' = [calls EXCEPT ![r] = Append(@, [stage |-> stage, target |-> target,
                                            op |-> op, ok |-> ok])]

\* the content store pins an upload
Pin(r, stage, content) ==
  ipfs' = [ipfs EXCEPT ![r] = Append(@, [stage |-> stage, cid |-> CidOf(content)])]

\* the authoritative ledger accepts a transaction
Accept(r, op, args) ==
  chain' = [chain EXCEPT ![r] = Append(@, [op |-> op, args |-> args])]

\* fs::write of a file of an evidence folder: the file is created or replaced
WriteFile(folder, name, content) ==
  [n \in DOMAIN folder \cup {name} |-> IF n = name THEN content ELSE folder[n]]

StageSucceededOneUpload(res, txs, uploads) ==
  [res EXCEPT !.successful_stages = @ + 1,
              !.total_transactions = @ + txs,
              !.total_ipfs_uploads = @ + 1]

\* lines 246-248 and the like: the counters after a stage returned
StageSucceeded(res, txs, uploads) ==
  [res EXCEPT !.successful_stages = @ + 1,
              !.total_transactions = @ + txs,
              !.total_ipfs_uploads = @ + uploads]

\* a request reaches http_handlers::execute_workflow
StartRun(r) ==
  /\ wrun[r].pc = "start"
  /\ wrun' = [wrun EXCEPT ![r].pc = StageEntry(1)]
  /\ UNCHANGED <<calls, chain, ipfs, folders>>

\* register_farmer, lines 352-389
register_farmer(r) ==
  \/ /\ wrun[r].pc = "reg_upload"
     /\ \E ok \in BOOLEAN :
          /\ Call(r, 1, "ipfs", "upload_json", ok)
          /\ IF ok
             THEN /\ Pin(r, 1, [run |-> r, doc |-> "farmer"])
                  /\ \E did_ok \in BOOLEAN :
                       IF did_ok
                       THEN /\ wrun' = [wrun EXCEPT
                                 ![r].pc = "reg_submit",
                                 ![r].input.farmer_did_ok = Some(TRUE),
                                 ![r].loc.cid = Some(CidOf([run |-> r, doc |-> "farmer"]))]
                            /\ UNCHANGED chain
                       ELSE Abort(r, "Invalid farmer DID format")
             ELSE /\ Abort(r, "Failed to upload farmer metadata to IPFS")
                  /\ UNCHANGED ipfs
     /\ UNCHANGED folders
  \/ /\ wrun[r].pc = "reg_submit"
     /\ \E ok \in BOOLEAN :
          /\ Call(r, 1, "chain", "register_farmer", ok)
          /\ IF ok
             THEN /\ Accept(r, "register_farmer",
                           [crop_id |-> hash_string("crop"), cid |-> wrun[r].loc.cid[1]])
                  /\ wrun' = [wrun EXCEPT
                       ![r].pc = StageEntry(2),
                       ![r].result = StageSucceeded(@, 1, 1)]
             ELSE Abort(r, "Blockchain registration failed")
     /\ UNCHANGED <<ipfs, folders>>

\* the batch identifier of the request: the runs work on different batches
BatchIds(r) == IF r = 1 THEN {"b1"} ELSE {"b2"}

\* record_fpo_purchase, lines 407-414, for a request with batch_id = b
fpo_write(r, b) ==
  /\ wrun[r].pc = "fpo_write"
  /\ \E ok \in BOOLEAN :
       /\ Call(r, 2, "fs", "write_json_to_folder", ok)
       /\ IF ok
          THEN /\ folders' = [folders EXCEPT ![b] =
                    WriteFile(@, "fpo_purchase.json", [run |-> r, doc |-> "fpo"])]
               /\ wrun' = [wrun EXCEPT ![r].pc = "fpo_upload",
                                       ![r].input.batch_id = Some(b)]
               /\ UNCHANGED chain
          ELSE /\ Abort(r, "Failed to write FPO metadata to batch folder")
               /\ UNCHANGED folders
  /\ UNCHANGED ipfs

\* record_fpo_purchase, lines 391-437
record_fpo_purchase(r) ==
  \/ \E b \in BatchIds(r) : fpo_write(r, b)
  \/ /\ wrun[r].pc = "fpo_upload"
     /\ \E ok \in BOOLEAN :
          /\ Call(r, 2, "ipfs", "upload_folder", ok)
          /\ IF ok
             THEN /\ Pin(r, 2, folders[wrun[r].input.batch_id[1]])
                  /\ IF wrun[r].input.farmer_did_ok = Some(TRUE)
                     THEN /\ wrun' = [wrun EXCEPT
                               ![r].pc = "fpo_submit",
                               ![r].loc.cid = Some(CidOf(folders[wrun[r].input.batch_id[1]]))]
                          /\ UNCHANGED chain
                     ELSE Abort(r, "Invalid farmer DID")
             ELSE /\ Abort(r, "Failed to upload batch folder to IPFS")
                  /\ UNCHANGED ipfs
     /\ UNCHANGED folders
  \/ /\ wrun[r].pc = "fpo_submit"
     /\ \E ok \in BOOLEAN :
          /\ Call(r, 2, "chain", "fpo_purchase", ok)
          /\ IF ok
             THEN /\ Accept(r, "fpo_purchase",
                           [batch_hash |-> hash_string(wrun[r].input.batch_id[1]),
                            cid |-> wrun[r].loc.cid[1]])
                  /\ wrun' = [wrun EXCEPT
                       ![r].pc = StageEntry(3),
                       ![r].result = StageSucceeded(@, 1, 1)]
             ELSE Abort(r, "Blockchain FPO purchase failed")
     /\ UNCHANGED <<ipfs, folders>>

\* record_warehouse_storage, lines 439-472
record_warehouse_storage(r) ==
  \/ /\ wrun[r].pc = "wh_upload"
     /\ \E ok \in BOOLEAN :
          /\ Call(r, 3, "ipfs", "upload_json", ok)
          /\ IF ok
             THEN /\ Pin(r, 3, [run |-> r, doc |-> "warehouse"])
                  /\ wrun' = [wrun EXCEPT
                       ![r].pc = "wh_submit",
                       ![r].loc.cid = Some(CidOf([run |-> r, doc |-> "warehouse"]))]
                  /\ UNCHANGED chain
             ELSE /\ Abort(r, "Failed to upload warehouse data to IPFS")
                  /\ UNCHANGED ipfs
     /\ UNCHANGED folders
  \/ /\ wrun[r].pc = "wh_submit"
     /\ \E ok \in BOOLEAN :
          /\ Call(r, 3, "chain", "update_warehouse_state", ok)
          /\ IF ok
             THEN /\ Accept(r, "update_warehouse_state",
                           [state_hash |-> hash_bytes([run |-> r, doc |-> "warehouse"]),
                            cid |-> wrun[r].loc.cid[1]])
                  /\ wrun' = [wrun EXCEPT
                       ![r].pc = StageEntry(4),
                       ![r].idx = 0,
                       ![r].loc.txs = 0,
                       ![r].result = StageSucceeded(@, 1, 1)]
             ELSE Abort(r, "Blockchain warehouse update failed")
     /\ UNCHANGED <<ipfs, folders>>

IsDeliveredOffByOne(idx, len) == idx = len

\* line 482: the last checkpoint is the delivery
IsDelivered(idx, len) == idx = len - 1

\* a field of the request body, drawn when the code first reads it
ReadField(field, values) == IF field = None THEN values ELSE {field[1]}

\* record_logistics_journey, lines 474-523
record_logistics_journey(r) ==
  \/ /\ wrun[r].pc = "lg_loop"
     /\ \E n \in ReadField(wrun[r].input.checkpoints, 0..MaxCheckpoints) :
          IF wrun[r].idx < n
          THEN wrun' = [wrun EXCEPT ![r].pc = "lg_upload",
                                    ![r].input.checkpoints = Some(n)]
          ELSE wrun' = [wrun EXCEPT
                 ![r].pc = StageEntry(5),
                 ![r].input.checkpoints = Some(n),
                 ![r].result = StageSucceeded(@, wrun[r].loc.txs, n)]
     /\ UNCHANGED <<calls, chain, ipfs, folders>>
  \/ /\ wrun[r].pc = "lg_upload"
     /\ \E ok \in BOOLEAN :
          LET gps_data == [run |-> r, doc |-> "gps",
                           checkpoint |-> wrun[r].idx + 1,
                           is_delivered |-> IsDelivered(wrun[r].idx,
                                              wrun[r].input.checkpoints[1])]
          IN /\ Call(r, 4, "ipfs", "upload_json", ok)
             /\ IF ok
                THEN /\ Pin(r, 4, gps_data)
                     /\ wrun' = [wrun EXCEPT ![r].pc = "lg_submit",
                                             ![r].loc.cid = Some(CidOf(gps_data))]
                     /\ UNCHANGED chain
                ELSE /\ Abort(r, "Failed to upload logistics data to IPFS")
                     /\ UNCHANGED ipfs
     /\ UNCHANGED folders
  \/ /\ wrun[r].pc = "lg_submit"
     /\ \E ok \in BOOLEAN :
          /\ Call(r, 4, "chain", "record_logistics", ok)
          /\ IF ok
             THEN /\ Accept(r, "record_logistics",
                           [checkpoint |-> wrun[r].idx + 1,
                            is_delivered |-> IsDelivered(wrun[r].idx,
                                               wrun[r].input.checkpoints[1]),
                            cid |-> wrun[r].loc.cid[1]])
                  /\ wrun' = [wrun EXCEPT ![r].pc = "lg_loop",
                                          ![r].idx = @ + 1,
                                          ![r].loc.txs = @ + 1]
             ELSE Abort(r, "Blockchain logistics record failed")
     /\ UNCHANGED <<ipfs, folders>>

\* the lengths of data.processing.output_products in the model: only the
\* first product is used
OutputCounts == {0, 1}

\* process_batch, lines 525-587, and the use of its result at line 294
process_batch(r) ==
  \/ /\ wrun[r].pc = "pr_write"
     /\ \E ok \in BOOLEAN :
          /\ Call(r, 5, "fs", "write_json_to_folder", ok)
          /\ IF ok
             THEN /\ folders' = [folders EXCEPT ![wrun[r].input.batch_id[1]] =
                       WriteFile(@, "processing.json", [run |-> r, doc |-> "processing"])]
                  /\ wrun' = [wrun EXCEPT ![r].pc = "pr_upload"]
                  /\ UNCHANGED chain
             ELSE /\ Abort(r, "Failed to write processing metadata to batch folder")
                  /\ UNCHANGED folders
     /\ UNCHANGED ipfs
  \/ /\ wrun[r].pc = "pr_upload"
     /\ \E ok \in BOOLEAN :
          /\ Call(r, 5, "ipfs", "upload_folder", ok)
          /\ IF ok
             THEN /\ Pin(r, 5, folders[wrun[r].input.batch_id[1]])
                  /\ wrun' = [wrun EXCEPT
                       ![r].pc = "pr_submit",
                       ![r].loc.cid = Some(CidOf(folders[wrun[r].input.batch_id[1]]))]
                  /\ UNCHANGED chain
             ELSE /\ Abort(r, "Failed to upload batch folder to IPFS")
                  /\ UNCHANGED ipfs
     /\ UNCHANGED folders
  \/ /\ wrun[r].pc = "pr_submit"
     /\ \E ok \in BOOLEAN, n \in OutputCounts :
          /\ Call(r, 5, "chain", "process_batch", ok)
          /\ IF ok
             THEN /\ Accept(r, "process_batch",
                           [input_hash |-> hash_string(wrun[r].input.batch_id[1]),
                            outputs |-> n, cid |-> wrun[r].loc.cid[1]])
                  /\ wrun' = [wrun EXCEPT
                       ![r].pc = IF n = 0 THEN "panicked" ELSE StageEntry(6),
                       ![r].input.output_products = Some(n),
                       ![r].idx = 1,
                       ![r].result = StageSucceeded(@, 1, 1),
                       ![r].response = IF n = 0 THEN [kind |-> "panic"] ELSE @]
             ELSE Abort(r, "Blockchain processing failed")
     /\ UNCHANGED <<ipfs, folders>>

\* packaging_<sku_id>.json, the sku_id being <sku_prefix>-<package_num>
PackagingFile(package_num) == <<"packaging", package_num>>

\* data.packaging.units_per_package of the request of run r
UnitsPerPackage(r) == IF r = 1 THEN 2 ELSE 1

\* data.packaging.sku_prefix of the request of run r
SkuPrefix(r) == IF r = 1 THEN "SKU-A" ELSE "SKU-B"

sku_id_without_number(r, package_num) == <<SkuPrefix(r), 1>>

\* line 599: <sku_prefix>-<package_num>, the number zero padded to at least
\* four digits; different numbers give different identifiers
sku_id(r, package_num) == <<SkuPrefix(r), package_num>>

UnitIdsOfFirstPackage(r, package_num) ==
  [unit \in 1..UnitsPerPackage(r) |-> <<sku_id(r, 1), "U", unit>>]

\* lines 602-604: <sku_id>-U<unit> for unit = 1..units_per_package
unit_ids(r, package_num) ==
  [unit \in 1..UnitsPerPackage(r) |-> <<sku_id(r, package_num), "U", unit>>]

\* lines 636-642: the hash of the concatenation of the 32-byte hashes of the
\* unit identifiers, in the order of the list
merkle_root(ids) == hash_bytes([u \in 1..Len(ids) |-> hash_string(ids[u])])

\* create_retail_packages, lines 589-665
create_retail_packages(r) ==
  \/ /\ wrun[r].pc = "pk_loop"
     /\ \E n \in ReadField(wrun[r].input.total_packages, 0..MaxPackages) :
          IF wrun[r].idx <= n
          THEN wrun' = [wrun EXCEPT ![r].pc = "pk_write",
                                    ![r].input.total_packages = Some(n)]
          ELSE wrun' = [wrun EXCEPT
                 ![r].pc = StageEntry(7),
                 ![r].input.total_packages = Some(n),
                 ![r].result = [StageSucceeded(@, n, n)
                                  EXCEPT !.final_skus = wrun[r].loc.skus]]
     /\ UNCHANGED <<calls, chain, ipfs, folders>>
  \/ /\ wrun[r].pc = "pk_write"
     /\ \E ok \in BOOLEAN :
          /\ Call(r, 6, "fs", "write_json_to_folder", ok)
          /\ IF ok
             THEN /\ folders' = [folders EXCEPT ![ProductId(r)] =
                       WriteFile(@, PackagingFile(wrun[r].idx),
                                 [run |-> r, doc |-> "packaging"])]
                  /\ wrun' = [wrun EXCEPT ![r].pc = "pk_upload"]
                  /\ UNCHANGED chain
             ELSE /\ Abort(r, "Failed to write packaging metadata to batch folder")
                  /\ UNCHANGED folders
     /\ UNCHANGED ipfs
  \/ /\ wrun[r].pc = "pk_upload"
     /\ \E ok \in BOOLEAN :
          /\ Call(r, 6, "ipfs", "upload_folder", ok)
          /\ IF ok
             THEN /\ Pin(r, 6, folders[ProductId(r)])
                  /\ wrun' = [wrun EXCEPT
                       ![r].pc = "pk_submit",
                       ![r].loc.cid = Some(CidOf(folders[ProductId(r)]))]
                  /\ UNCHANGED chain
             ELSE /\ Abort(r, "Failed to upload batch folder to IPFS")
                  /\ UNCHANGED ipfs
     /\ UNCHANGED folders
  \/ /\ wrun[r].pc = "pk_submit"
     /\ \E ok \in BOOLEAN :
          /\ Call(r, 6, "chain", "create_sku", ok)
          /\ IF ok
             THEN /\ Accept(r, "create_sku",
                           [sku_hash |-> hash_string(sku_id(r, wrun[r].idx)),
                            parent_hash |-> hash_string(ProductId(r)),
                            merkle_root |-> merkle_root(unit_ids(r, wrun[r].idx)),
                            cid |-> wrun[r].loc.cid[1]])
                  /\ wrun' = [wrun EXCEPT
                       ![r].pc = "pk_loop",
                       ![r].idx = @ + 1,
                       ![r].loc.skus = Append(@, sku_id(r, wrun[r].idx))]
             ELSE Abort(r, "Blockchain SKU creation failed")
     /\ UNCHANGED <<ipfs, folders>>

ScoringBranchAlways(some) == "ai_write"

\* line 304: if let Some(ai_data) = &data.ai_scoring
ScoringBranch(some) == IF some THEN "ai_write" ELSE "finish"

\* execute_full_workflow, line 304, and execute_ai_scoring, lines 667-735
execute_ai_scoring(r) ==
  \/ /\ wrun[r].pc = "ai_test"
     /\ \E some \in BOOLEAN :
          wrun' = [wrun EXCEPT ![r].pc = ScoringBranch(some),
                               ![r].input.ai_scoring = Some(some)]
     /\ UNCHANGED <<calls, chain, ipfs, folders>>
  \/ /\ wrun[r].pc = "ai_write"
     /\ \E ok \in BOOLEAN :
          /\ Call(r, 7, "fs", "write_json_to_folder", ok)
          /\ IF ok
             THEN /\ folders' = [folders EXCEPT ![wrun[r].input.batch_id[1]] =
                       WriteFile(@, "ai_score.json", [run |-> r, doc |-> "ai_score"])]
                  /\ wrun' = [wrun EXCEPT ![r].pc = "ai_upload"]
                  /\ UNCHANGED chain
             ELSE /\ Abort(r, "Failed to write AI score to batch folder")
                  /\ UNCHANGED folders
     /\ UNCHANGED ipfs
  \/ /\ wrun[r].pc = "ai_upload"
     /\ \E ok \in BOOLEAN, nonce \in Nonces :
          /\ Call(r, 7, "ipfs", "upload_folder", ok)
          /\ IF ok
             THEN /\ Pin(r, 7, folders[wrun[r].input.batch_id[1]])
                  /\ wrun' = [wrun EXCEPT
                       ![r].pc = "ai_commit",
                       ![r].loc.nonce = Some(nonce),
                       ![r].loc.cid = Some(CidOf(folders[wrun[r].input.batch_id[1]]))]
                  /\ UNCHANGED chain
             ELSE /\ Abort(r, "Failed to upload batch folder to IPFS")
                  /\ UNCHANGED ipfs
     /\ UNCHANGED folders
  \/ /\ wrun[r].pc = "ai_commit"
     /\ \E ok \in BOOLEAN :
          /\ Call(r, 7, "chain", "commit_ai_score", ok)
          /\ IF ok
             THEN /\ Accept(r, "commit_ai_score",
                           [batch_hash |-> hash_string(wrun[r].input.batch_id[1]),
                            commit_hash |-> generate_commit_hash(
                               hash_bytes([run |-> r, doc |-> "ai_score"]),
                               wrun[r].loc.nonce[1])])
                  /\ wrun' = [wrun EXCEPT ![r].pc = "ai_sleep"]
             ELSE Abort(r, "Blockchain AI commit failed")
     /\ UNCHANGED <<ipfs, folders>>
  \/ /\ wrun[r].pc = "ai_sleep"
     /\ Call(r, 7, "timer", "sleep", TRUE)
     /\ wrun' = [wrun EXCEPT ![r].pc = "ai_reveal"]
     /\ UNCHANGED <<chain, ipfs, folders>>
  \/ /\ wrun[r].pc = "ai_reveal"
     /\ \E ok \in BOOLEAN :
          /\ Call(r, 7, "chain", "reveal_ai_score", ok)
          /\ IF ok
             THEN /\ Accept(r, "reveal_ai_score",
                           [batch_hash |-> hash_string(wrun[r].input.batch_id[1]),
                            reveal_hash |-> hash_bytes([run |-> r, doc |-> "ai_score"]),
                            nonce |-> wrun[r].loc.nonce[1],
                            cid |-> wrun[r].loc.cid[1]])
                  /\ wrun' = [wrun EXCEPT
                       ![r].pc = "finish",
                       ![r].result = [@ EXCEPT !.ai_commit_tx = TRUE,
                                               !.ai_reveal_tx = TRUE,
                                               !.ai_metadata = TRUE,
                                               !.total_transactions = @ + 2,
                                               !.total_ipfs_uploads = @ + 1]]
             ELSE Abort(r, "Blockchain AI reveal failed")
     /\ UNCHANGED <<ipfs, folders>>

\* execute_full_workflow, lines 316-345, and the Ok response of the handler
FinishRun(r) ==
  /\ wrun[r].pc = "finish"
  /\ wrun' = [wrun EXCEPT ![r].pc = "done",
                          ![r].response = [kind |-> "ok", result |-> wrun[r].result]]
  /\ UNCHANGED <<calls, chain, ipfs, folders>>

\* the steps of run r of execute_full_workflow
WorkflowStep(r) ==
  \/ StartRun(r)
  \/ register_farmer(r)
  \/ record_fpo_purchase(r)
  \/ record_warehouse_storage(r)
  \/ record_logistics_journey(r)
  \/ process_batch(r)
  \/ create_retail_packages(r)
  \/ execute_ai_scoring(r)
  \/ FinishRun(r)

WorkflowNext == \E r \in Runs : WorkflowStep(r)

AfterUploadIgnoringError(ok) == "wait"

\* demo_handlers.rs, line 123: the ? after upload_json; on an error the
\* handler answers 500 and is done, else it goes on to add_fpo_purchase
AfterUpload(ok) == IF ok THEN "wait" ELSE "idle"

\* demo_handlers::fpo_purchase, lines 63-137, of request slot p: the metadata
\* is uploaded, then add_fpo_purchase is called with the content identifier
\* the upload returned; the upload is recorded in calls[p] and ipfs[p]
fpo_purchase(p) ==
  /\ \E ok \in BOOLEAN :
       /\ Call(p, 2, "ipfs", "upload_json", ok)
       /\ IF AfterUpload(ok) = "wait"
          THEN /\ CallAppend(p)
               /\ ipfs' = IF ok
                          THEN [ipfs EXCEPT ![p] =
                                 Append(@, [stage |-> 2, cid |-> local'[p].ipfs_cid])]
                          ELSE ipfs
          ELSE /\ up
               /\ lpc[p] = "idle"
               /\ appends < MaxBlocks
               /\ appends' = appends + 1
               /\ UNCHANGED <<blocks, batch_history, disk, clock, rw_writer, lpc,
                              local, result, acked, failed, ipfs>>
  /\ UNCHANGED <<wrun, chain, folders>>

\* the steps of the demo purchase handler of request slot p
DemoStep(p) ==
  \/ fpo_purchase(p)
  \/ AppendBody(p) /\ UNCHANGED wfVars

(***************************************************************************)
(* The verification directory: FarmerVerificationService behind the Mutex  *)
(* of AppState, and the handler upload_farmer_ipfs_data.                    *)
(***************************************************************************)
Uploaders == {1, 2}

\* the mobile numbers of the requests; "m0" is in no database
Mobiles == {"m0", "m1", "m2"}

\* the farmers of data/farmers_db.json when the server starts
InitialFarmers ==
  {[mobile |-> "m1", farmer_did |-> "f1", verified |-> TRUE, ipfscid |-> ""],
   [mobile |-> "m2", farmer_did |-> "f2", verified |-> FALSE, ipfscid |-> ""]}

\* the FarmerDatabase that serde writes and reads
FarmerDatabase(farmers) ==
  [kind |-> "db", farmers |-> farmers, total_farmers |-> Cardinality(farmers)]

\* FarmerVerificationService::from_file, lines 47-63: the two maps built from
\* the farmers of the file
from_file(db) ==
  [mobile_to_did |-> [m \in {f.mobile : f \in db.farmers} |->
                        (CHOOSE f \in db.farmers : f.mobile = m).farmer_did],
   did_to_farmer |-> [d \in {f.farmer_did : f \in db.farmers} |->
                        CHOOSE f \in db.farmers : f.farmer_did = d]]

\* FarmerVerificationService::get_farmer_by_mobile
get_farmer_by_mobile(m2d, d2f, mobile) ==
  IF mobile \in DOMAIN m2d /\ m2d[mobile] \in DOMAIN d2f
  THEN Some(d2f[m2d[mobile]])
  ELSE None

\* FarmerVerificationService::update_farmer_ipfscid_by_mobile: the entry of
\* the DID of the mobile number gets the content reference; an error if the
\* mobile number or its DID is unknown
update_farmer_ipfscid_by_mobile(m2d, d2f, mobile, ipfscid) ==
  IF mobile \in DOMAIN m2d /\ m2d[mobile] \in DOMAIN d2f
  THEN [ok |-> TRUE, did_to_farmer |-> [d2f EXCEPT ![m2d[mobile]].ipfscid = ipfscid]]
  ELSE [ok |-> FALSE, did_to_farmer |-> d2f]

\* FarmerVerificationService::save_to_file: the values of did_to_farmer
save_to_file(d2f) == FarmerDatabase({d2f[d] : d \in DOMAIN d2f})

NoUpload == [pc |-> "idle", mobile |-> "", cid |-> "", updated |-> FALSE,
             saved |-> FALSE, response |-> "none"]

\* AppState::from_env, lines 27-44: the service is loaded from the file
DirectoryInit ==
  /\ db_file = FarmerDatabase(InitialFarmers)
  /\ mobile_to_did = from_file(FarmerDatabase(InitialFarmers)).mobile_to_did
  /\ did_to_farmer = from_file(FarmerDatabase(InitialFarmers)).did_to_farmer
  /\ fv_lock = 0
  /\ upc = [u \in Uploaders |-> NoUpload]

\* a request reaches upload_farmer_ipfs_data; cid is the content identifier
\* of its data
UploadRequest(u) ==
  /\ upc[u].pc = "idle"
  /\ \E m \in Mobiles, c \in Cids :
       upc' = [upc EXCEPT ![u] = [NoUpload EXCEPT !.pc = "lookup", !.mobile = m,
                                                  !.cid = c]]
  /\ UNCHANGED <<mobile_to_did, did_to_farmer, db_file, fv_lock>>

MutexBroken(holder) == TRUE

\* Mutex::lock is granted when nobody holds the guard
MutexFree(holder) == holder = 0

\* lines 974-980: the lookup under the guard, which is dropped at the end of
\* the block; an unknown mobile number is answered with 400
LookupFarmer(u) ==
  /\ upc[u].pc = "lookup"
  /\ MutexFree(fv_lock)
  /\ IF get_farmer_by_mobile(mobile_to_did, did_to_farmer, upc[u].mobile) = None
     THEN upc' = [upc EXCEPT ![u].pc = "respond", ![u].response = "bad_request"]
     ELSE upc' = [upc EXCEPT ![u].pc = "upload"]
  /\ UNCHANGED <<mobile_to_did, did_to_farmer, db_file, fv_lock>>

\* lines 983-987: upload_json, an error is answered with 500
UploadData(u) ==
  /\ upc[u].pc = "upload"
  /\ \E ok \in BOOLEAN :
       IF ok
       THEN upc' = [upc EXCEPT ![u].pc = "lock"]
       ELSE upc' = [upc EXCEPT ![u].pc = "respond", ![u].response = "ipfs_failed"]
  /\ UNCHANGED <<mobile_to_did, did_to_farmer, db_file, fv_lock>>

\* line 991: state.farmer_verification.lock().await
LockDirectory(u) ==
  /\ upc[u].pc = "lock"
  /\ MutexFree(fv_lock)
  /\ fv_lock' = u
  /\ upc' = [upc EXCEPT ![u].pc = "update"]
  /\ UNCHANGED <<mobile_to_did, did_to_farmer, db_file>>

\* lines 992-994: the update in memory; an error is logged and ignored
UpdateDirectory(u) ==
  /\ upc[u].pc = "update"
  /\ LET res == update_farmer_ipfscid_by_mobile(mobile_to_did, did_to_farmer,
                                                upc[u].mobile, upc[u].cid)
     IN /\ did_to_farmer' = res.did_to_farmer
        /\ upc' = [upc EXCEPT ![u].pc = "save", ![u].updated = res.ok]
  /\ UNCHANGED <<mobile_to_did, db_file, fv_lock>>

\* lines 997-1001: save_to_file; an error is logged and ignored
SaveDirectory(u) ==
  /\ upc[u].pc = "save"
  /\ \E ok \in BOOLEAN :
       /\ db_file' = IF ok THEN save_to_file(did_to_farmer) ELSE db_file
       /\ upc' = [upc EXCEPT ![u].pc = "unlock", ![u].saved = ok]
  /\ UNCHANGED <<mobile_to_did, did_to_farmer, fv_lock>>

\* lines 1002-1011: the guard is dropped and the handler answers success
UnlockDirectory(u) ==
  /\ upc[u].pc = "unlock"
  /\ fv_lock' = IF fv_lock = u THEN 0 ELSE fv_lock
  /\ upc' = [upc EXCEPT ![u].pc = "respond", ![u].response = "ok"]
  /\ UNCHANGED <<mobile_to_did, did_to_farmer, db_file>>

\* the response is sent
RespondUpload(u) ==
  /\ upc[u].pc = "respond"
  /\ upc' = [upc EXCEPT ![u] = NoUpload]
  /\ UNCHANGED <<mobile_to_did, did_to_farmer, db_file, fv_lock>>

\* the steps of request u of upload_farmer_ipfs_data
upload_farmer_ipfs_data(u) ==
  \/ UploadRequest(u)
  \/ LookupFarmer(u)
  \/ UploadData(u)
  \/ LockDirectory(u)
  \/ UpdateDirectory(u)
  \/ SaveDirectory(u)
  \/ UnlockDirectory(u)
  \/ RespondUpload(u)

DirectoryNext == \E u \in Uploaders : upload_farmer_ipfs_data(u)

(***************************************************************************)
(* The methods of FarmerVerificationService (farmer_verification.rs).      *)
(***************************************************************************)
\* the entries that add_farmer is called with in the model
FarmerEntries ==
  [mobile : Mobiles, farmer_did : Farmers, verified : BOOLEAN, ipfscid : {""}]

\* HashMap::insert: the value of an existing key is replaced
insert(map, k, v) ==
  [x \in DOMAIN map \cup {k} |-> IF x = k THEN v ELSE map[x]]

\* FarmerVerificationService::new: two empty maps
new ==
  [mobile_to_did |-> [m \in {} |-> ""],
   did_to_farmer |-> [d \in {} |-> ""]]

\* FarmerVerificationService::verify_mobile
verify_mobile(m2d, mobile) ==
  IF mobile \in DOMAIN m2d THEN Some(m2d[mobile]) ELSE None

\* FarmerVerificationService::is_did_registered
is_did_registered(d2f, farmer_did) == farmer_did \in DOMAIN d2f

\* FarmerVerificationService::get_farmer_by_did
get_farmer_by_did(d2f, farmer_did) ==
  IF farmer_did \in DOMAIN d2f THEN Some(d2f[farmer_did]) ELSE None

verify_mobile_did_pair_unknown_passes(m2d, mobile, farmer_did) ==
  IF mobile \in DOMAIN m2d THEN m2d[mobile] = farmer_did ELSE TRUE

\* FarmerVerificationService::verify_mobile_did_pair
verify_mobile_did_pair(m2d, mobile, farmer_did) ==
  IF mobile \in DOMAIN m2d THEN m2d[mobile] = farmer_did ELSE FALSE

\* FarmerVerificationService::add_farmer
add_farmer(m2d, d2f, farmer) ==
  [mobile_to_did |-> insert(m2d, farmer.mobile, farmer.farmer_did),
   did_to_farmer |-> insert(d2f, farmer.farmer_did, farmer)]

\* FarmerVerificationService::is_mobile_verified
is_mobile_verified(m2d, d2f, mobile) ==
  LET farmer == get_farmer_by_mobile(m2d, d2f, mobile)
  IN IF farmer = None THEN FALSE ELSE farmer[1].verified

total_farmers_by_mobile(m2d, d2f) == Cardinality(DOMAIN m2d)

\* FarmerVerificationService::total_farmers
total_farmers(m2d, d2f) == Cardinality(DOMAIN d2f)

\* a call of add_farmer on the service
AddFarmer ==
  /\ Len(added) < MaxFarmers
  /\ \E farmer \in FarmerEntries :
       /\ mobile_to_did' = add_farmer(mobile_to_did, did_to_farmer, farmer).mobile_to_did
       /\ did_to_farmer' = add_farmer(mobile_to_did, did_to_farmer, farmer).did_to_farmer
       /\ added' = Append(added, farmer)
  /\ UNCHANGED <<db_file, fv_lock, upc, hreq>>

(***************************************************************************)
(* The handlers that consult the directory (supply_chain_handlers.rs).     *)
(***************************************************************************)
Handlers == {1, 2}

\* the farmer DIDs of the requests: f1 and f2 are in the directory, f3 and
\* f4 are not
Dids == {"f1", "f2", "f3", "f4"}

\* the length in bytes of the DID string: "0x" and 64 hex digits, or a short
\* string such as the "0x123abc" of the tests
DidBytes(farmer_did) ==
  CASE farmer_did = "f1" -> 66
    [] farmer_did = "f2" -> 8
    [] farmer_did = "f3" -> 66
    [] farmer_did = "f4" -> 8

\* payload.farmer_did.parse::<FixedBytes<32>>(): 32 bytes in hex, with or
\* without the prefix
ParsesAsFixedBytes32(farmer_did) == DidBytes(farmer_did) \in {64, 66}

\* &payload.farmer_did.as_bytes()[0..16] is in range
SliceInRange(farmer_did, end) == end <= DidBytes(farmer_did)

HandlerOps == {"register_farmer", "fpo_purchase", "verify_farmer"}

NoRequest ==
  [pc |-> "idle", op |-> "none", farmer_did |-> "", mobile |-> None,
   calls |-> <<>>, response |-> [kind |-> "none"]]

HandlerInit ==
  /\ added = <<>>
  /\ hreq = [h \in Handlers |-> NoRequest]

\* the service of ServiceSpec: FarmerVerificationService::new()
ServiceInit ==
  /\ LedgerInit
  /\ WorkflowInit
  /\ HandlerInit
  /\ db_file = FarmerDatabase(InitialFarmers)
  /\ mobile_to_did = new.mobile_to_did
  /\ did_to_farmer = new.did_to_farmer
  /\ fv_lock = 0
  /\ upc = [u \in Uploaders |-> NoUpload]

\* a request reaches one of the three handlers; mobile is optional
HandlerRequest(h) ==
  /\ hreq[h].pc = "idle"
  /\ \E op \in HandlerOps, d \in Dids, m \in {None} \cup {Some(x) : x \in Mobiles} :
       /\ op = "verify_farmer" => m = None
       /\ hreq' = [hreq EXCEPT ![h] =
            [NoRequest EXCEPT !.pc = "check", !.op = op, !.farmer_did = d,
                              !.mobile = m]]

\* the answer of a handler
Answer(h, kind) ==
  hreq' = [hreq EXCEPT ![h].pc = "respond", ![h].response = [kind |-> kind]]

\* an external call of a handler, recorded with its outcome; the handler
\* goes on at position next if the call succeeded and answers with the
\* error otherwise
External(h, target, op, ok, next, error) ==
  hreq' = [hreq EXCEPT
    ![h].calls = Append(@, <<target, op, ok>>),
    ![h].pc = IF ok THEN next ELSE "respond",
    ![h].response = IF ok THEN @ ELSE [kind |-> error]]

RegisterFarmerCheckMobileOnly(m2d, d2f, mobile, farmer_did) ==
  IF mobile = None THEN "pass"
  ELSE IF ~is_mobile_verified(m2d, d2f, mobile[1]) THEN "bad_request"
  ELSE "pass"

\* register_farmer, lines 52-76: the check of the mobile number, if given
RegisterFarmerCheck(m2d, d2f, mobile, farmer_did) ==
  IF mobile = None THEN "pass"
  ELSE IF ~is_mobile_verified(m2d, d2f, mobile[1]) THEN "bad_request"
  ELSE IF ~verify_mobile_did_pair(m2d, mobile[1], farmer_did) THEN "bad_request"
  ELSE "pass"

\* the register_farmer handler, lines 45-104
register_farmer_handler(h) ==
  /\ hreq[h].op = "register_farmer"
  /\ \/ /\ hreq[h].pc = "check"
        /\ MutexFree(fv_lock)
        /\ IF RegisterFarmerCheck(mobile_to_did, did_to_farmer, hreq[h].mobile,
                                  hreq[h].farmer_did) = "pass"
           THEN hreq' = [hreq EXCEPT ![h].pc = "upload"]
           ELSE Answer(h, "bad_request")
     \/ /\ hreq[h].pc = "upload"
        /\ \E ok \in BOOLEAN :
             External(h, "ipfs", "upload_json", ok, "parse", "ipfs_upload_failed")
     \/ /\ hreq[h].pc = "parse"
        /\ IF ParsesAsFixedBytes32(hreq[h].farmer_did)
           THEN hreq' = [hreq EXCEPT ![h].pc = "submit"]
           ELSE Answer(h, "invalid_did")
     \/ /\ hreq[h].pc = "submit"
        /\ \E ok \in BOOLEAN :
             External(h, "chain", "register_farmer", ok, "answer", "blockchain_failed")
     \/ /\ hreq[h].pc = "answer"
        /\ Answer(h, "ok")

\* fpo_purchase, lines 136-164: the DID is registered and, if a mobile
\* number is given, paired with it
FpoPurchaseCheck(m2d, d2f, mobile, farmer_did) ==
  IF ~is_did_registered(d2f, farmer_did) THEN "bad_request"
  ELSE IF mobile # None /\ ~verify_mobile_did_pair(m2d, mobile[1], farmer_did)
       THEN "bad_request"
  ELSE "pass"

\* the fpo_purchase handler, lines 129-258
fpo_purchase_handler(h) ==
  /\ hreq[h].op = "fpo_purchase"
  /\ \/ /\ hreq[h].pc = "check"
        /\ MutexFree(fv_lock)
        /\ IF FpoPurchaseCheck(mobile_to_did, did_to_farmer, hreq[h].mobile,
                               hreq[h].farmer_did) = "pass"
           THEN hreq' = [hreq EXCEPT ![h].pc = "write"]
           ELSE Answer(h, "bad_request")
     \/ /\ hreq[h].pc = "write"
        /\ \E ok \in BOOLEAN :
             External(h, "ipfs", "write_json_to_folder", ok, "upload",
                      "ipfs_upload_failed")
     \/ /\ hreq[h].pc = "upload"
        /\ \E ok \in BOOLEAN :
             External(h, "ipfs", "upload_folder", ok, "parse", "ipfs_upload_failed")
     \/ /\ hreq[h].pc = "parse"
        /\ IF ParsesAsFixedBytes32(hreq[h].farmer_did)
           THEN hreq' = [hreq EXCEPT ![h].pc = "submit"]
           ELSE Answer(h, "invalid_did")
     \/ /\ hreq[h].pc = "submit"
        /\ \E ok \in BOOLEAN :
             External(h, "chain", "fpo_purchase", ok, "answer", "blockchain_failed")
     \/ /\ hreq[h].pc = "answer"
        /\ Answer(h, "ok")

\* the VerifyFarmerResponse with its exists flag
VerifyFarmerResponse(exists) == [kind |-> "ok", exists |-> exists]

\* the verify_farmer handler, lines 866-947
verify_farmer(h) ==
  /\ hreq[h].op = "verify_farmer"
  /\ \/ /\ hreq[h].pc = "check"
        /\ MutexFree(fv_lock)
        /\ LET local_farmer == get_farmer_by_did(did_to_farmer, hreq[h].farmer_did)
           IN IF local_farmer # None
              THEN IF SliceInRange(hreq[h].farmer_did, 16)
                   THEN hreq' = [hreq EXCEPT
                          ![h].pc = "respond",
                          ![h].response = VerifyFarmerResponse(local_farmer[1].verified)]
                   ELSE hreq' = [hreq EXCEPT ![h].pc = "panicked",
                                             ![h].response = [kind |-> "panic"]]
              ELSE IF ParsesAsFixedBytes32(hreq[h].farmer_did)
                   THEN hreq' = [hreq EXCEPT ![h].pc = "query"]
                   ELSE Answer(h, "bad_request")
     \/ /\ hreq[h].pc = "query"
        /\ \E ok \in BOOLEAN, exists \in BOOLEAN :
             hreq' = [hreq EXCEPT
               ![h].calls = Append(@, <<"chain", "verify_farmer", ok>>),
               ![h].pc = "respond",
               ![h].response = VerifyFarmerResponse(ok /\ exists)]

\* the response is sent, or the task that panicked is gone
HandlerDone(h) ==
  /\ hreq[h].pc \in {"respond", "panicked"}
  /\ hreq' = [hreq EXCEPT ![h] = NoRequest]

HandlerStep(h) ==
  \/ HandlerRequest(h)
  \/ register_farmer_handler(h)
  \/ fpo_purchase_handler(h)
  \/ verify_farmer(h)
  \/ HandlerDone(h)

HandlerNext == \E h \in Handlers : HandlerStep(h)

Init == LedgerInit /\ WorkflowInit /\ DirectoryInit /\ HandlerInit

Next ==
  \/ LedgerNext /\ UNCHANGED <<clientVars, wfVars, dirVars, svcVars>>
  \/ ReadNext /\ UNCHANGED <<readFrameVars, up, crashes, wfVars, dirVars, svcVars>>
  \/ CrashNext /\ UNCHANGED <<wfVars, dirVars, svcVars>>
  \/ WorkflowNext /\ UNCHANGED <<ledgerVars, clientVars, dirVars, svcVars>>
  \/ DirectoryNext /\ UNCHANGED <<ledgerVars, clientVars, wfVars, svcVars>>
  \/ HandlerNext /\ UNCHANGED <<ledgerVars, clientVars, wfVars, dirVars, added>>

\* the Local Ledger under concurrent callers of add_fpo_purchase
LedgerSpec == Init /\ [][LedgerNext /\ UNCHANGED <<clientVars, wfVars, dirVars, svcVars>>]_vars

\* the LocalBlockchainClient under concurrent callers of its write and read
\* methods
ClientSpec ==
  Init /\ [][\/ LedgerNext /\ UNCHANGED <<clientVars, wfVars, dirVars, svcVars>>
             \/ ReadNext /\ UNCHANGED <<readFrameVars, up, crashes, wfVars, dirVars, svcVars>>]_vars

\* read calls, one at a time, between the steps of the appends of one caller
ReaderSpec ==
  Init /\ [][\/ AppendStep(1) /\ UNCHANGED <<clientVars, wfVars, dirVars, svcVars>>
             \/ ReadCall(1) /\ UNCHANGED <<readFrameVars, up, crashes, wfVars, dirVars, svcVars>>]_vars

\* the Local Ledger with one caller at a time, crashes of the process and
\* restarts
CrashSpec ==
  Init /\ [][\/ AppendStep(1) /\ UNCHANGED <<clientVars, wfVars, dirVars, svcVars>>
             \/ CrashNext /\ UNCHANGED <<wfVars, dirVars, svcVars>>]_vars

\* concurrent runs of the workflow orchestrator
WorkflowSpec == Init /\ [][WorkflowNext /\ UNCHANGED <<ledgerVars, clientVars, dirVars, svcVars>>]_vars

\* no request of the orchestrator has arrived
WorkflowIdle == \A r \in Runs : wrun[r].pc = "start"

\* no request of the demo purchase handler has arrived
DemoIdle == appends = 0

\* the stage transitions one request at a time: the requests of a behaviour
\* are either runs of the orchestrator or demo purchases; the two handlers
\* share no state and main.rs builds the binary without demo_handlers
EvidenceSpec ==
  Init /\ [][\/ DemoIdle /\ WorkflowStep(1) /\ UNCHANGED <<ledgerVars, clientVars, dirVars, svcVars>>
             \/ WorkflowIdle /\ DemoStep(1) /\ UNCHANGED <<clientVars, dirVars, svcVars>>]_vars

\* run r has answered its request
RunEnded(r) == wrun[r].pc \in {"done", "failed", "panicked"}

\* two requests one after the other, the second possibly for the batch of
\* the first
RerunSpec ==
  Init /\ [][/\ \/ WorkflowStep(1)
                \/ RunEnded(1) /\ WorkflowStep(2)
                \/ RunEnded(1) /\ fpo_write(2, "b1")
             /\ UNCHANGED <<ledgerVars, clientVars, dirVars, svcVars>>]_vars

\* concurrent requests of upload_farmer_ipfs_data
DirectorySpec ==
  Init /\ [][DirectoryNext /\ UNCHANGED <<ledgerVars, clientVars, wfVars, svcVars>>]_vars

\* requests to the register_farmer, fpo_purchase and verify_farmer handlers
HandlerSpec ==
  Init /\ [][HandlerNext
               /\ UNCHANGED <<ledgerVars, clientVars, wfVars, dirVars, added>>]_vars

\* a FarmerVerificationService made by new() and filled by add_farmer, as
\* in the tests of farmer_verification.rs
ServiceSpec ==
  ServiceInit /\ [][AddFarmer /\ UNCHANGED <<ledgerVars, clientVars, wfVars>>]_vars

Spec == Init /\ [][Next]_vars

(***************************************************************************)
(* Properties of the Local Ledger.                                         *)
(***************************************************************************)
MemHashes == {blocks[i].block_hash : i \in 1..Len(blocks)}

DiskHashes ==
  IF disk.kind = "ledger"
  THEN {disk.blocks[i].block_hash : i \in 1..Len(disk.blocks)}
  ELSE {}

History(k) == get_batch_history(blocks, batch_history, k)

\* C1: for every business key the history returned by get_batch_history has
\* the versions 1, 2, ..., n in this order, its first entry has no
\* predecessor hash, and the entry at version v > 1 has previous_block_hash
\* equal to the block_hash of the entry at version v - 1.
C1_HistoryChained ==
  \A k \in Keys :
    LET h == History(k)
    IN /\ k \in DOMAIN batch_history => Len(h) = Len(batch_history[k])
       /\ \A i \in 1..Len(h) :
            /\ h[i].version = i
            /\ h[i].batch_id = k
            /\ i = 1 => h[i].previous_block_hash = None
            /\ i > 1 => h[i].previous_block_hash = Some(h[i - 1].block_hash)

C1_Witness ==
  \E k \in Keys :
    /\ Len(History(k)) = MaxBlocks
    /\ History(k)[MaxBlocks].version = MaxBlocks
    /\ \A p \in Procs : lpc[p] = "idle"

\* C2: when the durable write fails, the append returns an error and the
\* in-memory ledger is rolled back: the block of an append that reported a
\* failure is neither in the entry sequence nor in the key index once the
\* append has its result, and no later save writes it to the file; with no
\* append in progress the in-memory ledger equals the persisted one.
C2_RolledBackOnFailure ==
  /\ \A p \in Procs :
       result[p].kind = "err" =>
         /\ result[p].block_hash \notin MemHashes
         /\ \A k \in DOMAIN batch_history :
              \A i \in 1..Len(batch_history[k]) :
                batch_history[k][i] # result[p].block_hash
  /\ \A h \in failed : h \notin MemHashes /\ h \notin DiskHashes
  /\ (rw_writer = 0 /\ disk.kind = "ledger") =>
       (disk.blocks = blocks /\ disk.batch_history = batch_history)
  /\ (rw_writer = 0 /\ disk.kind = "absent") => blocks = <<>>

\* C3: under any interleaving of the callers of
\* LocalBlockchainClient::add_fpo_purchase, two distinct entries of the same
\* business key never have the same version nor the same predecessor hash.
C3_NoBranch ==
  \A i, j \in 1..Len(blocks) :
    (i # j /\ blocks[i].batch_id = blocks[j].batch_id) =>
      /\ blocks[i].version # blocks[j].version
      /\ blocks[i].previous_block_hash # blocks[j].previous_block_hash

\* two callers were in the call on the same key at the same time, and both
\* of their blocks are in the ledger
C3_Witness ==
  \E p, q \in Procs :
    /\ p # q
    /\ lpc[p] = "save" /\ lpc[q] = "wait"
    /\ local[p].batch_id = local[q].batch_id
    /\ local[p].block[1].version = 2
    /\ Len(blocks) = 2

RunFailed(r) == wrun[r].pc = "failed"

ExternalTargets == {"ipfs", "chain"}

\* the stage of an operation of the authoritative ledger
OpStage(op) ==
  CASE op = "register_farmer" -> 1
    [] op = "fpo_purchase" -> 2
    [] op = "update_warehouse_state" -> 3
    [] op = "record_logistics" -> 4
    [] op = "process_batch" -> 5
    [] op = "create_sku" -> 6
    [] op = "commit_ai_score" -> 7
    [] op = "reveal_ai_score" -> 7

OncePerRun == {"register_farmer", "fpo_purchase", "update_warehouse_state",
               "process_batch", "commit_ai_score", "reveal_ai_score"}

CountOk(cs, target) ==
  Cardinality({i \in 1..Len(cs) : cs[i].target = target /\ cs[i].ok})

\* C5: in a workflow run, once a content-store call or an
\* authoritative-ledger call has failed the run makes no further external
\* call, and the run returns an error and no WorkflowResult.
C5_AbortOnFirstFailure ==
  \A r \in Runs :
    /\ \A i \in 1..Len(calls[r]) :
         ~calls[r][i].ok =>
           /\ i = Len(calls[r])
           /\ wrun[r].pc = "failed"
           /\ wrun[r].response.kind = "err"
    /\ wrun[r].response.kind = "ok" =>
         \A i \in 1..Len(calls[r]) : calls[r][i].ok

C5_Witness ==
  \E r \in Runs :
    /\ RunFailed(r)
    /\ Len(calls[r]) > 0
    /\ ~Last(calls[r]).ok
    /\ Last(calls[r]).target \in ExternalTargets
    /\ Last(calls[r]).stage = 4
    /\ Len(chain[r]) = 3

\* C6: within every run, also with other runs in flight, the submissions to
\* the authoritative ledger are made in the order Registration, Purchase,
\* Storage, Transport, Processing, Packaging, Scoring; a stage makes its
\* first external call only after the previous stage has returned
\* successfully, and no stage is entered twice.
C6_StagesInOrder ==
  \A r \in Runs :
    /\ \A i \in 1..(Len(chain[r]) - 1) :
         OpStage(chain[r][i].op) <= OpStage(chain[r][i + 1].op)
    /\ \A op \in OncePerRun :
         Cardinality({i \in 1..Len(chain[r]) : chain[r][i].op = op}) <= 1
    /\ \A j \in 1..Len(chain[r]) :
         \A op \in {"register_farmer", "fpo_purchase", "update_warehouse_state",
                    "process_batch"} :
           OpStage(op) < OpStage(chain[r][j].op) =>
             \E i \in 1..(j - 1) : chain[r][i].op = op
    /\ \A i \in 1..(Len(calls[r]) - 1) :
         calls[r][i].stage <= calls[r][i + 1].stage
    /\ Len(calls[r]) > 0 =>
         /\ Last(calls[r]).stage <= 6 =>
              wrun[r].result.successful_stages >= Last(calls[r]).stage - 1
         /\ Last(calls[r]).stage = 7 => wrun[r].result.successful_stages = 6

C6_Witness ==
  \E r1, r2 \in Runs :
    /\ r1 # r2
    /\ wrun[r1].pc = "finish"
    /\ Len(chain[r1]) > 0
    /\ Last(chain[r1]).op = "reveal_ai_score"
    /\ \E i \in 1..Len(chain[r1]) : chain[r1][i].op = "record_logistics"
    /\ \E i \in 1..Len(chain[r1]) : chain[r1][i].op = "create_sku"
    /\ wrun[r2].pc = "pr_submit"

ValidationErrors ==
  {ErrorResponse("Invalid farmer DID format"), ErrorResponse("Invalid farmer DID")}

\* C7: a farmer DID that does not parse as a 32-byte value is rejected
\* before any external call is made and with nothing mutated: the run that
\* is rejected has made no content-store upload, written no evidence file and
\* submitted nothing to the authoritative ledger.
C7_RejectedBeforeAnyCall ==
  \A r \in Runs :
    wrun[r].response \in ValidationErrors =>
      /\ calls[r] = <<>>
      /\ ipfs[r] = <<>>
      /\ chain[r] = <<>>

\* the stage in which a failed run failed: the stage of its last call
FailingStage(r) == Last(calls[r]).stage

\* C8: the failure returned by an aborted run identifies the failing stage,
\* the last successfully completed stage and the counts of transactions and
\* of content uploads the run had performed: two aborted runs that return
\* the same failure failed in the same stage, after the same number of
\* completed stages, transactions and uploads.
C8_FailureIdentifiesProgress ==
  \A r1, r2 \in Runs :
    (RunFailed(r1) /\ RunFailed(r2) /\ wrun[r1].response = wrun[r2].response) =>
      /\ FailingStage(r1) = FailingStage(r2)
      /\ wrun[r1].result.successful_stages = wrun[r2].result.successful_stages
      /\ Len(chain[r1]) = Len(chain[r2])
      /\ Len(ipfs[r1]) = Len(ipfs[r2])

IsPrefix(s, t) == Len(s) <= Len(t) /\ SubSeq(t, 1, Len(s)) = s

\* C9: when a run aborts, the transactions the authoritative ledger accepted
\* and the uploads the content store pinned for it stay as they are: no step
\* of the orchestrator, the abort included, removes or changes one.
C9_NoCompensation ==
  [][\A r \in Runs : /\ IsPrefix(chain[r], chain'[r])
                     /\ IsPrefix(ipfs[r], ipfs'[r])
                     /\ Len(chain'[r]) = CountOk(calls'[r], "chain")
                     /\ Len(ipfs'[r]) = CountOk(calls'[r], "ipfs")]_vars

C9_Witness ==
  \E r \in Runs :
    /\ RunFailed(r)
    /\ Last(calls[r]).stage = 4
    /\ Last(calls[r]).op = "record_logistics"
    /\ Len(chain[r]) = 4
    /\ chain[r][4].op = "record_logistics"
    /\ Len(ipfs[r]) = 5

\* C10: in the Scoring stage the reveal is submitted only after the commit
\* submission returned a receipt and the delay has elapsed, and the reveal
\* opens the commit of the same run: the committed hash is the hash of the
\* revealed hash followed by the revealed nonce, with the same batch hash.
C10_RevealOpensCommit ==
  \A r \in Runs :
    /\ \A v \in 1..Len(calls[r]) :
         calls[r][v].op = "reveal_ai_score" =>
           \E c, s \in 1..Len(calls[r]) :
             /\ c < s /\ s < v
             /\ calls[r][c].op = "commit_ai_score" /\ calls[r][c].ok
             /\ calls[r][s].op = "sleep"
    /\ \A j \in 1..Len(chain[r]) :
         chain[r][j].op = "reveal_ai_score" =>
           \E i \in 1..(j - 1) :
             /\ chain[r][i].op = "commit_ai_score"
             /\ chain[r][i].args.batch_hash = chain[r][j].args.batch_hash
             /\ chain[r][i].args.commit_hash =
                  keccak256(<<chain[r][j].args.reveal_hash, chain[r][j].args.nonce>>)

C10_Witness ==
  \E r \in Runs :
    /\ Len(chain[r]) > 0
    /\ Last(chain[r]).op = "reveal_ai_score"
    /\ Last(calls[r]).op = "reveal_ai_score"
    /\ wrun[r].loc.nonce = Some(<<"random", 2>>)

\* the hash recomputed from a stored Block: the preimage of lines 95-105
\* rebuilt from the fields the Block keeps, with cid taken for "ipfs_cid",
\* which the Block does not keep
RecomputedHash(b, cid) ==
  calculate_hash(BlockContent(b.block_id, b.previous_block_hash, b.timestamp,
                              b.batch_id, b.farmer_did, cid, b.version,
                              b.transaction_data))

\* C11: for every entry stored in the ledger, recomputing the entry hash from
\* the fields the entry stores reproduces the stored block_hash: the stored
\* fields alone determine the hash, whatever is taken for an input of the
\* hash that the entry does not store.
C11_HashRecomputable ==
  \A i \in 1..Len(blocks) :
    \A c \in Cids : RecomputedHash(blocks[i], c) = blocks[i].block_hash

\* C12: in every reachable state of the ledger the block_id values of the
\* entries are pairwise distinct, also when two appends read the same clock
\* value.
C12_BlockIdsDistinct ==
  \A i, j \in 1..Len(blocks) :
    i # j => blocks[i].block_id # blocks[j].block_id

\* the block hashes of the entries of bs filed under key k, in append order
HashesOf(bs, k) ==
  LET es == SelectSeq(bs, LAMBDA b : b.batch_id = k)
  IN [i \in 1..Len(es) |-> es[i].block_hash]

IndexAgrees(bs, bh) ==
  /\ \A k \in DOMAIN bh : bh[k] # <<>> /\ bh[k] = HashesOf(bs, k)
  /\ \A i \in 1..Len(bs) : bs[i].batch_id \in DOMAIN bh

\* C13: in every reachable state, after a load and after any sequence of
\* appends, successful or failed, the key index agrees with the entry
\* sequence: batch_history[k] is the sequence of the block hashes of the
\* entries of key k in append order, and a key is in the index iff an entry
\* carries it; the same holds of every ledger file written.
C13_IndexAgrees ==
  /\ IndexAgrees(blocks, batch_history)
  /\ disk.kind = "ledger" => IndexAgrees(disk.blocks, disk.batch_history)

\* a ledger loaded after a crash, with a further append whose save failed
C13_Witness ==
  /\ up /\ crashes = 1
  /\ Len(blocks) = 3
  /\ disk.kind = "ledger" /\ Len(disk.blocks) = 2
  /\ \E p \in Procs : result[p].kind = "err"
  /\ DOMAIN batch_history = Keys

\* C14: entries are never mutated or deleted once appended: in every step of
\* the running ledger the entry sequence before the step is a prefix of the
\* entry sequence after it, every field of an existing entry unchanged.
C14_EntriesImmutable == [][IsPrefix(blocks, blocks')]_vars

\* the ledger has grown to its full length, past an append whose save failed
C14_Witness ==
  /\ Len(blocks) = MaxBlocks
  /\ failed # {}
  /\ acked # {}
  /\ \A p \in Procs : lpc[p] = "idle"

\* C15: every acknowledged append is crash-durable: once the process has
\* crashed, at whatever point, the middle of a later append's rewrite of the
\* file included, the file still holds the entry of every append that was
\* acknowledged, and a restarted process has loaded all of them.
C15_AckedCrashDurable ==
  crashes > 0 =>
    \A h \in acked :
      /\ disk.kind = "ledger"
      /\ h \in DiskHashes
      /\ up => h \in MemHashes

\* caller p is between computing the predecessor of its block and returning
Appending(p) == lpc[p] \in {"compute", "push", "save", "ret"}

\* C16: through LocalBlockchainClient an append has exclusive access for its
\* whole read-modify-persist-acknowledge sequence: while an append is between
\* computing its predecessor and returning, no read call and no other append
\* is in progress; read calls may be in progress together.
C16_ExclusiveAppend ==
  /\ \A p \in Procs :
       Appending(p) =>
         /\ rw_writer = p
         /\ rw_readers = {}
         /\ \A r \in Readers : rpc[r] = NoRead
         /\ \A q \in Procs \ {p} : ~Appending(q)
  /\ rw_readers = {r \in Readers : rpc[r] # NoRead}

\* two read calls in progress together on a ledger that holds an entry,
\* while an append waits for the write guard
C16_Witness ==
  /\ rpc[1].op = "get_batch_history"
  /\ rpc[2].op = "get_stats"
  /\ rw_readers = Readers
  /\ Len(blocks) >= 1
  /\ \E p \in Procs : lpc[p] = "wait"

\* the entries of the ledger filed under key k, in append order
EntriesOf(k) == SelectSeq(blocks, LAMBDA b : b.batch_id = k)

\* C17: get_batch_history(k) returns all and only the entries appended under
\* key k: it is the sequence of the entries of the ledger whose batch_id is
\* k, in append order, with the versions 1..n and none skipped; it is empty
\* for a key under which nothing was appended; and the entry of every append
\* that has returned is in the history of exactly one key, once.
C17_HistoryAllAndOnly ==
  /\ \A k \in Keys :
       /\ History(k) = EntriesOf(k)
       /\ \A i \in 1..Len(History(k)) :
            History(k)[i].batch_id = k /\ History(k)[i].version = i
       /\ (\A i \in 1..Len(blocks) : blocks[i].batch_id # k) => History(k) = <<>>
  /\ \A h \in acked \cup failed :
       Cardinality({ki \in Keys \X (1..Len(blocks)) :
                      /\ ki[2] <= Len(History(ki[1]))
                      /\ History(ki[1])[ki[2]].block_hash = h}) = 1

\* two appends under b1 with one under b2 between them, all returned
C17_Witness ==
  /\ Len(blocks) = 3
  /\ blocks[1].batch_id = "b1" /\ blocks[2].batch_id = "b2" /\ blocks[3].batch_id = "b1"
  /\ Len(History("b1")) = 2 /\ Len(History("b2")) = 1
  /\ \A p \in Procs : lpc[p] = "idle"

Latest(k) == get_latest_block_for_batch(blocks, batch_history, k)

\* C18: get_latest_block_for_batch(k) returns the entry of key k with the
\* highest version, which is the entry the most recent append under k
\* created, and returns None when no entry carries the key.
C18_LatestIsNewest ==
  \A k \in Keys :
    IF EntriesOf(k) = <<>>
    THEN Latest(k) = None
    ELSE /\ Latest(k) = Some(Last(EntriesOf(k)))
         /\ Latest(k)[1].batch_id = k
         /\ \A i \in 1..Len(blocks) :
              blocks[i].batch_id = k => blocks[i].version <= Latest(k)[1].version

\* the latest entry of b1 is its second version and not the last entry of
\* the ledger
C18_Witness ==
  /\ Len(blocks) = 3
  /\ blocks[3].batch_id = "b2"
  /\ Latest("b1") = Some(blocks[2])
  /\ blocks[2].version = 2
  /\ Latest("b2") = Some(blocks[3])

\* the run has returned a WorkflowResult
Returned(r) == wrun[r].response.kind = "ok"

\* C19: a run that returns a WorkflowResult reports successful_stages equal
\* to the number of stages it completed, the optional Scoring stage
\* included: 6 without scoring input, 7 with it.
C19_SuccessCounter ==
  \A r \in Runs :
    Returned(r) =>
      wrun[r].response.result.successful_stages =
        (IF wrun[r].input.ai_scoring = Some(TRUE) THEN 7 ELSE 6)

\* C20: for every run that returns a WorkflowResult, total_transactions is
\* the number of submissions the run made to the authoritative ledger and
\* total_ipfs_uploads the number of uploads it made to the content store,
\* for every checkpoint count, package count and presence of scoring input.
C20_CountersMatchCalls ==
  \A r \in Runs :
    Returned(r) =>
      /\ wrun[r].response.result.total_transactions = Len(chain[r])
      /\ wrun[r].response.result.total_transactions = CountOk(calls[r], "chain")
      /\ wrun[r].response.result.total_ipfs_uploads = Len(ipfs[r])
      /\ wrun[r].response.result.total_ipfs_uploads = CountOk(calls[r], "ipfs")

\* a run with the most checkpoints and packages and with scoring input, and
\* a run with no checkpoint and without scoring input, have both returned
C20_Witness ==
  \E r1, r2 \in Runs :
    /\ Returned(r1) /\ Returned(r2)
    /\ wrun[r1].input.checkpoints = Some(MaxCheckpoints)
    /\ wrun[r1].input.total_packages = Some(MaxPackages)
    /\ wrun[r1].input.ai_scoring = Some(TRUE)
    /\ wrun[r1].response.result.total_transactions = 6 + MaxCheckpoints + MaxPackages
    /\ wrun[r2].input.checkpoints = Some(0)
    /\ wrun[r2].input.ai_scoring = Some(FALSE)

(***************************************************************************)
(* Properties of the Packaging, Transport and Scoring stages.              *)
(***************************************************************************)
\* the transactions of run r of one operation, in the order of acceptance
ChainOps(r, op) == SelectSeq(chain[r], LAMBDA e : e.op = op)

\* the external calls of run r in one stage, in the order they were made
StageCalls(r, stage) == SelectSeq(calls[r], LAMBDA c : c.stage = stage)

\* run r has left the stage function of the stage with success
StageDone(r, stage) == wrun[r].result.successful_stages >= stage

\* C21: a Packaging stage with total_packages = N and units_per_package = M
\* produces exactly N aggregate hashes; the p-th is the hash of the
\* concatenation, for u = 1..M in this order, of the hashes of the unit
\* identifiers of package p, so it has exactly M leaves and none of another
\* package.
C21_MerkleOverOwnUnits ==
  \A r \in Runs :
    LET skus == ChainOps(r, "create_sku")
    IN /\ \A p \in 1..Len(skus) :
            LET leaves == skus[p].args.merkle_root[2]
            IN /\ skus[p].args.merkle_root[1] = "keccak256"
               /\ DOMAIN leaves = 1..UnitsPerPackage(r)
               /\ \A u \in 1..UnitsPerPackage(r) :
                    leaves[u] = <<"keccak256", <<<<SkuPrefix(r), p>>, "U", u>>>>
       /\ StageDone(r, 6) => Len(skus) = wrun[r].input.total_packages[1]

\* the run with two units per package has submitted the most packages
C21_Witness ==
  \E r \in Runs :
    /\ UnitsPerPackage(r) = 2
    /\ StageDone(r, 6)
    /\ Len(ChainOps(r, "create_sku")) = MaxPackages
    /\ MaxPackages >= 2

\* C22: the Packaging stage makes, for each package number 1..total_packages
\* in increasing order, one write into the evidence folder, one collection
\* upload and then one create_sku submission, each call made after the one
\* before returned with success; on success it returns total_packages SKU
\* identifiers in package-number order, pairwise distinct, with as many
\* transactions and uploads.
C22_PackagesInOrder ==
  \A r \in Runs :
    LET cs == StageCalls(r, 6)
        skus == ChainOps(r, "create_sku")
        out == wrun[r].result.final_skus
    IN /\ \A i \in 1..Len(cs) :
            /\ i % 3 = 1 => cs[i].target = "fs"
            /\ i % 3 = 2 => cs[i].target = "ipfs" /\ cs[i].op = "upload_folder"
            /\ i % 3 = 0 => cs[i].target = "chain" /\ cs[i].op = "create_sku"
            /\ i < Len(cs) => cs[i].ok
       /\ \A p \in 1..Len(skus) :
            skus[p].args.sku_hash = <<"keccak256", <<SkuPrefix(r), p>>>>
       /\ StageDone(r, 6) =>
            LET n == wrun[r].input.total_packages[1]
            IN /\ Len(cs) = 3 * n
               /\ \A i \in 1..Len(cs) : cs[i].ok
               /\ Len(skus) = n
               /\ Cardinality({i \in 1..Len(ipfs[r]) : ipfs[r][i].stage = 6}) = n
               /\ Len(out) = n
               /\ \A p \in 1..n : out[p] = <<SkuPrefix(r), p>>
               /\ \A p, q \in 1..n : p # q => out[p] # out[q]

\* a run has returned the SKU identifiers of the most packages
C22_Witness ==
  \E r \in Runs :
    /\ Returned(r)
    /\ Len(wrun[r].response.result.final_skus) = MaxPackages
    /\ MaxPackages >= 2

\* C23: in the Transport stage the checkpoints are uploaded and submitted one
\* at a time in input order, and of a non-empty list exactly the submission
\* of the last checkpoint carries is_delivered = true.
C23_LastCheckpointDelivered ==
  \A r \in Runs :
    LET cs == StageCalls(r, 4)
        sent == ChainOps(r, "record_logistics")
    IN /\ \A i \in 1..Len(cs) :
            /\ i % 2 = 1 => cs[i].target = "ipfs"
            /\ i % 2 = 0 => cs[i].target = "chain" /\ cs[i].op = "record_logistics"
            /\ i < Len(cs) => cs[i].ok
       /\ \A i \in 1..Len(sent) :
            /\ sent[i].args.checkpoint = i
            /\ i <= wrun[r].input.checkpoints[1]
            /\ sent[i].args.is_delivered = (i = wrun[r].input.checkpoints[1])
       /\ StageDone(r, 4) => Len(sent) = wrun[r].input.checkpoints[1]

\* a run has submitted all of the most checkpoints, the last as delivered
C23_Witness ==
  \E r \in Runs :
    LET sent == ChainOps(r, "record_logistics")
    IN /\ StageDone(r, 4)
       /\ MaxCheckpoints >= 2
       /\ Len(sent) = MaxCheckpoints
       /\ sent[MaxCheckpoints].args.is_delivered
       /\ ~sent[1].args.is_delivered

\* the positions inside execute_ai_scoring
ScoringPcs == {"ai_write", "ai_upload", "ai_commit", "ai_sleep", "ai_reveal"}

\* C24: the Scoring stage is entered iff scoring input is supplied and the
\* six earlier stages succeeded; a run without scoring input never submits
\* commit_ai_score or reveal_ai_score and returns ai_commit_tx, ai_reveal_tx
\* and ai_metadata absent; a run with scoring input that returns a result
\* has made both submissions and returns all three present.
C24_ScoringIffSupplied ==
  \A r \in Runs :
    LET supplied == wrun[r].input.ai_scoring = Some(TRUE)
        entered == \/ wrun[r].pc \in ScoringPcs
                   \/ StageCalls(r, 7) # <<>>
    IN /\ entered => supplied /\ StageDone(r, 6)
       /\ (supplied /\ wrun[r].pc \in {"finish", "done"}) =>
            Len(ChainOps(r, "reveal_ai_score")) = 1
       /\ ~supplied =>
            /\ ChainOps(r, "commit_ai_score") = <<>>
            /\ ChainOps(r, "reveal_ai_score") = <<>>
       /\ Returned(r) =>
            LET res == wrun[r].response.result
            IN IF supplied
               THEN /\ res.ai_commit_tx /\ res.ai_reveal_tx /\ res.ai_metadata
                    /\ Len(ChainOps(r, "commit_ai_score")) = 1
                    /\ Len(ChainOps(r, "reveal_ai_score")) = 1
               ELSE ~res.ai_commit_tx /\ ~res.ai_reveal_tx /\ ~res.ai_metadata

\* one run returned with the three scoring fields, the other without them
C24_Witness ==
  \E r1, r2 \in Runs :
    /\ Returned(r1) /\ Returned(r2)
    /\ wrun[r1].response.result.ai_metadata
    /\ wrun[r2].input.ai_scoring = Some(FALSE)
    /\ ~wrun[r2].response.result.ai_commit_tx

\* the transactions of run r that take a content identifier
WithCid(r) == SelectSeq(chain[r], LAMBDA e : e.op # "commit_ai_score")

\* the content identifier that went into the hash of an entry
CidOfEntry(b) == b.block_hash[2].ipfs_cid

\* C25: in every stage transition the evidence is uploaded before the ledger
\* is written. In a run of the orchestrator every submission follows a
\* successful upload of its stage with no other upload in between, the m-th
\* submission that takes a content identifier carries the one the m-th
\* upload returned, and nothing is submitted after a failed upload. In the
\* demo purchase handler add_fpo_purchase is called only after the upload
\* succeeded and with the identifier it returned, so every entry was hashed
\* with an identifier some upload returned.
C25_UploadBeforeLedger ==
  /\ \A r \in Runs :
       wrun[r].pc # "start" =>
         LET cs == calls[r]
         IN /\ \A i \in 1..Len(cs) :
                 cs[i].target = "chain" =>
                   \E j \in 1..(i - 1) :
                     /\ cs[j].target = "ipfs" /\ cs[j].ok
                     /\ cs[j].stage = cs[i].stage
                     /\ \A k \in (j + 1)..(i - 1) :
                          /\ cs[k].target # "ipfs"
                          /\ cs[k].target = "chain" =>
                               /\ cs[k].op = "commit_ai_score"
                               /\ cs[i].op = "reveal_ai_score"
            /\ \A i \in 1..Len(cs) :
                 (cs[i].target = "ipfs" /\ ~cs[i].ok) => i = Len(cs)
            /\ Len(WithCid(r)) <= Len(ipfs[r])
            /\ Len(ipfs[r]) <= Len(WithCid(r)) + 1
            /\ \A m \in 1..Len(WithCid(r)) :
                 /\ WithCid(r)[m].args.cid = ipfs[r][m].cid
                 /\ OpStage(WithCid(r)[m].op) = ipfs[r][m].stage
  /\ \A p \in Procs :
       lpc[p] # "idle" =>
         /\ calls[p] # <<>>
         /\ Last(calls[p]).ok
         /\ ipfs[p] # <<>>
         /\ local[p].ipfs_cid = Last(ipfs[p]).cid
  /\ \A i \in 1..Len(blocks) :
       \E p \in Procs : \E k \in 1..Len(ipfs[p]) :
         CidOfEntry(blocks[i]) = ipfs[p][k].cid
  /\ Len(blocks) <= CountOk(calls[1], "ipfs") + CountOk(calls[2], "ipfs")

\* a run of the orchestrator has revealed the score after all its uploads
C25_Witness ==
  \E r \in Runs :
    /\ Returned(r)
    /\ Len(ChainOps(r, "reveal_ai_score")) = 1
    /\ Len(ipfs[r]) = Len(WithCid(r))
    /\ Len(ipfs[r]) >= 6

\* the stages that write into an evidence folder and upload the folder
FolderStages == {2, 5, 6, 7}

\* the evidence folder that stage `stage` of run r writes into
FolderOf(r, stage) ==
  IF stage = 6 THEN ProductId(r) ELSE wrun[r].input.batch_id[1]

\* C26: the evidence collection of a key is append-only: every file that a
\* collection upload for the key contained is still in the collection with
\* the same content, so each later upload contains the evidence of every
\* earlier folder-stage transition on that key.
C26_EvidenceAppendOnly ==
  \A r \in Runs :
    \A i \in 1..Len(ipfs[r]) :
      ipfs[r][i].stage \in FolderStages =>
        LET uploaded == ipfs[r][i].cid[2]
            now == folders[FolderOf(r, ipfs[r][i].stage)]
        IN \A n \in DOMAIN uploaded :
             n \in DOMAIN now /\ now[n] = uploaded[n]

(***************************************************************************)
(* Properties of the verification directory.                               *)
(***************************************************************************)
\* request u has updated the directory in memory and not yet released it
BetweenUpdateAndPersist(u) == upc[u].pc = "save"

\* C27: the update of a content reference followed by the persist is atomic
\* with respect to other mutators: while a request is between its update in
\* memory and its persist no other request changes the directory or the
\* file, and the file a request writes contains its own update.
C27_UpdateAndPersistAtomic ==
  [][\A u \in Uploaders :
       BetweenUpdateAndPersist(u) =>
         /\ did_to_farmer' = did_to_farmer
         /\ mobile_to_did' = mobile_to_did
         /\ db_file' # db_file =>
              /\ upc'[u].pc = "unlock"
              /\ \E f \in db_file'.farmers :
                   f.mobile = upc[u].mobile /\ f.ipfscid = upc[u].cid]_vars

\* a request is about to persist its update while the other one waits for
\* the guard with another content reference for the same farmer
C27_Witness ==
  \E u, v \in Uploaders :
    /\ u # v
    /\ BetweenUpdateAndPersist(u)
    /\ upc[v].pc = "lock"
    /\ upc[v].mobile = upc[u].mobile
    /\ upc[v].cid # upc[u].cid
    /\ db_file # save_to_file(did_to_farmer)

(***************************************************************************)
(* Properties of generate_commit_hash.                                     *)
(***************************************************************************)
\* the reveal hashes of the runs: the hashes of their score documents
RevealHashes == {hash_bytes([run |-> r, doc |-> "ai_score"]) : r \in Runs}

\* the 32-byte values that generate_commit_hash is applied to
Digests == RevealHashes \cup Nonces

\* C28: generate_commit_hash(reveal, nonce) is the hash of reveal followed by
\* nonce; equal inputs give equal commits, and, the hash being free of
\* collisions, a different reveal, a different nonce or the two swapped give
\* a different commit; every commit a run submits is this function of its
\* reveal hash and its nonce.
C28_CommitIsHashOfRevealThenNonce ==
  /\ \A x, y \in Digests :
       generate_commit_hash(x, y) = <<"keccak256", <<x, y>>>>
  /\ \A x, y, x2, y2 \in Digests :
       (generate_commit_hash(x, y) = generate_commit_hash(x2, y2))
         <=> (x = x2 /\ y = y2)
  /\ \A x, y \in Digests :
       x # y => generate_commit_hash(x, y) # generate_commit_hash(y, x)
  /\ \A r \in Runs :
       \A i \in 1..Len(chain[r]) :
         chain[r][i].op = "commit_ai_score" =>
           chain[r][i].args.commit_hash =
             <<"keccak256", <<<<"keccak256", [run |-> r, doc |-> "ai_score"]>>,
                              wrun[r].loc.nonce[1]>>>>

\* a run has submitted its commit and waits to reveal
C28_Witness ==
  \E r \in Runs :
    /\ wrun[r].pc = "ai_sleep"
    /\ Len(ChainOps(r, "commit_ai_score")) = 1
    /\ wrun[r].loc.nonce[1] \in Nonces

(***************************************************************************)
(* Properties of the read operations of the Local Ledger.                  *)
(***************************************************************************)
\* a step of a read call: it starts or it returns
ReadStep == rpc' # rpc

\* C29: the read operations leave the ledger unchanged: a step of
\* get_batch_history, verify_farmer or get_stats changes neither the entry
\* sequence nor the key index nor the file, so history, latest,
\* verify_farmer_exists, get_block_by_hash and the statistics give the same
\* results after it as before.
C29_ReadsChangeNothing ==
  [][ReadStep =>
       /\ blocks' = blocks
       /\ batch_history' = batch_history
       /\ disk' = disk
       /\ \A k \in Keys :
            /\ get_batch_history(blocks', batch_history', k)
                 = get_batch_history(blocks, batch_history, k)
            /\ get_latest_block_for_batch(blocks', batch_history', k)
                 = get_latest_block_for_batch(blocks, batch_history, k)
       /\ \A f \in Farmers :
            verify_farmer_exists(blocks', f) = verify_farmer_exists(blocks, f)
       /\ \A h \in MemHashes :
            get_block_by_hash(blocks', h) = get_block_by_hash(blocks, h)
       /\ get_blockchain_stats(blocks', batch_history')
            = get_blockchain_stats(blocks, batch_history)]_vars

\* a read call holds its guard on a ledger that has entries under one key
\* only, after appends that returned
C29_Witness ==
  \E r \in Readers :
    /\ rpc[r] = [op |-> "get_batch_history"]
    /\ Len(blocks) >= 2
    /\ acked # {}
    /\ DOMAIN batch_history # Keys

\* some entry of the sequence bs, under whatever key, carries the identity
CarriedBy(bs, id) ==
  \E k \in Keys :
    LET under == SelectSeq(bs, LAMBDA b : b.batch_id = k)
    IN \E i \in 1..Len(under) : under[i].farmer_did = id

\* C30: verify_farmer_exists(id) is true iff at least one entry of the
\* ledger, under any business key, carries farmer_did = id, and once it is
\* true for an id it stays true after every later append.
C30_ExistsForIdentity ==
  [][\A id \in Farmers :
       /\ verify_farmer_exists(blocks, id) <=> CarriedBy(blocks, id)
       /\ verify_farmer_exists(blocks', id) <=> CarriedBy(blocks', id)
       /\ verify_farmer_exists(blocks, id) => verify_farmer_exists(blocks', id)]_vars

\* both identities exist, one of them only in an entry that is not the last
C30_Witness ==
  /\ Len(blocks) = MaxBlocks
  /\ \A id \in Farmers : verify_farmer_exists(blocks, id)
  /\ blocks[Len(blocks)].farmer_did = "f1"
  /\ blocks[Len(blocks) - 1].farmer_did = "f1"
  /\ blocks[1].farmer_did = "f2"

(***************************************************************************)
(* Properties of load and save across a restart.                           *)
(***************************************************************************)
\* the step of a new process that loads the ledger
StartStep == ~up /\ up'

\* a step in which a save writes the whole file
SaveStep == up /\ up' /\ disk' # disk /\ disk'.kind = "ledger"

\* a step that appends an entry to the ledger in memory
PushStep == up /\ up' /\ Len(blocks') = Len(blocks) + 1

\* C31: a process that starts with no file has the empty ledger; one that
\* starts with a file that a save wrote has the entry sequence and the key
\* index of that file; and every append after a restart continues the chain
\* of its key: its version is the number of entries of the key plus one and
\* its predecessor is the hash of the key's latest entry, or None.
C31_LoadContinuesChains ==
  [][/\ StartStep =>
          /\ disk.kind = "absent" => blocks' = <<>> /\ batch_history' = <<>>
          /\ disk.kind = "ledger" =>
               blocks' = disk.blocks /\ batch_history' = disk.batch_history
     /\ SaveStep =>
          load(disk') = [kind |-> "ok", blocks |-> blocks',
                         batch_history |-> batch_history']
     /\ (PushStep /\ crashes > 0) =>
          LET b == blocks'[Len(blocks')]
              own == SelectSeq(blocks, LAMBDA e : e.batch_id = b.batch_id)
          IN /\ b.version = Len(own) + 1
             /\ b.previous_block_hash =
                  IF own = <<>> THEN None ELSE Some(own[Len(own)].block_hash)]_vars

\* after a restart from a file with an entry, a second version of its key
\* is in memory and not yet in the file
C31_Witness ==
  /\ up
  /\ crashes > 0
  /\ disk.kind = "ledger"
  /\ Len(disk.blocks) >= 1
  /\ Len(blocks) = Len(disk.blocks) + 1
  /\ blocks[Len(blocks)].version = 2

(***************************************************************************)
(* Frame of an append: the chains of the other keys.                       *)
(***************************************************************************)
\* the hashes filed under a key, None for a key the index does not have
Filed(bh, k) == IF k \in DOMAIN bh THEN Some(bh[k]) ELSE None

\* C35: an append under business key A leaves the chain of every other key
\* as it was: for every key B other than A, get_batch_history(B),
\* get_latest_block_for_batch(B) and batch_history[B] are the same before
\* and after, and the version and the predecessor of the new entry are
\* those that the earlier entries of A alone determine.
C35_OtherKeysUntouched ==
  [][Len(blocks') = Len(blocks) + 1 =>
       LET b == blocks'[Len(blocks')]
           A == b.batch_id
           own == EntriesOf(A)
       IN /\ \A B \in Keys \ {A} :
               /\ get_batch_history(blocks', batch_history', B) = History(B)
               /\ get_latest_block_for_batch(blocks', batch_history', B) = Latest(B)
               /\ Filed(batch_history', B) = Filed(batch_history, B)
          /\ b.version = Len(own) + 1
          /\ b.previous_block_hash =
               IF own = <<>> THEN None ELSE Some(own[Len(own)].block_hash)
          /\ SubSeq(blocks', 1, Len(blocks)) = blocks]_vars

\* an entry was appended under b2 after two entries under b1, whose chain
\* still has its two versions
C35_Witness ==
  /\ Len(blocks) = 3
  /\ blocks[3].batch_id = "b2"
  /\ blocks[3].version = 1
  /\ Len(History("b1")) = 2
  /\ Latest("b1") = Some(blocks[2])

(***************************************************************************)
(* How a workflow run ends.                                                *)
(***************************************************************************)
\* C34: every workflow run ends by returning a WorkflowResult or an error
\* value: a run that has ended answered with one of the two, also when the
\* output_products list of its Processing input is empty, and no run ends
\* abnormally after its process_batch transaction was accepted.
C34_RunsReturn ==
  \A r \in Runs :
    RunEnded(r) =>
      /\ wrun[r].response.kind \in {"ok", "err"}
      /\ wrun[r].pc # "panicked"

(***************************************************************************)
(* What the upload of a farmer's content reference reports.                *)
(***************************************************************************)
\* C37: upload_farmer_ipfs_data reports success only if the content
\* reference of the farmer was updated in the directory in memory and the
\* directory was written to its file; a request whose update or whose write
\* failed is answered with an error.
C37_SuccessMeansUpdatedAndPersisted ==
  \A u \in Uploaders :
    upc[u].response = "ok" => upc[u].updated /\ upc[u].saved

(***************************************************************************)
(* Properties of the verification service.                                 *)
(***************************************************************************)
\* the DIDs and the mobile numbers that add_farmer was called with
AddedDids == {added[i].farmer_did : i \in 1..Len(added)}
AddedMobiles == {added[i].mobile : i \in 1..Len(added)}

\* C32: after add_farmer(f), get_farmer_by_mobile(f.mobile) returns f,
\* verify_mobile_did_pair(f.mobile, d) is true exactly for d = f.farmer_did,
\* is_mobile_verified(f.mobile) equals f.verified, and total_farmers is the
\* number of distinct farmer DIDs added.
C32_AddedFarmerIsFound ==
  added # <<>> =>
    LET f == added[Len(added)]
    IN /\ get_farmer_by_mobile(mobile_to_did, did_to_farmer, f.mobile) = Some(f)
       /\ \A d \in Farmers \cup Dids :
            verify_mobile_did_pair(mobile_to_did, f.mobile, d) <=> d = f.farmer_did
       /\ is_mobile_verified(mobile_to_did, did_to_farmer, f.mobile) = f.verified
       /\ total_farmers(mobile_to_did, did_to_farmer) = Cardinality(AddedDids)

\* three entries were added, two of them with the same mobile number and
\* different DIDs, the last one with a mobile number and a DID used before
C32_Witness ==
  /\ Len(added) = 3
  /\ added[1].mobile = added[2].mobile
  /\ added[1].farmer_did # added[2].farmer_did
  /\ added[3].farmer_did = added[1].farmer_did
  /\ added[3].mobile # added[1].mobile
  /\ ~added[3].verified
  /\ total_farmers(mobile_to_did, did_to_farmer) = 2

\* C33: for a mobile number that was never added, verify_mobile returns
\* absent and is_mobile_verified and verify_mobile_did_pair return false for
\* every DID; a newly created service has total_farmers = 0.
C33_UnknownMobileIsAbsent ==
  /\ \A m \in Mobiles \ AddedMobiles :
       /\ verify_mobile(mobile_to_did, m) = None
       /\ ~is_mobile_verified(mobile_to_did, did_to_farmer, m)
       /\ \A d \in Farmers \cup Dids : ~verify_mobile_did_pair(mobile_to_did, m, d)
  /\ added = <<>> => total_farmers(mobile_to_did, did_to_farmer) = 0
  /\ total_farmers(new.mobile_to_did, new.did_to_farmer) = 0

\* every DID was added with a verified entry, and one mobile number was
\* never added
C33_Witness ==
  /\ AddedDids = Farmers
  /\ \A i \in 1..Len(added) : added[i].verified
  /\ "m0" \notin AddedMobiles
  /\ Mobiles \ AddedMobiles # {}
  /\ verify_mobile(mobile_to_did, "m0") = None

\* C36: after any sequence of add_farmer calls the two maps agree: every
\* mobile number m of mobile_to_did maps to a DID d that is in
\* did_to_farmer, and the entry stored under d has mobile = m, so that
\* get_farmer_by_mobile(m) returns an entry whose mobile is m.
C36_MapsConsistent ==
  \A m \in DOMAIN mobile_to_did :
    /\ mobile_to_did[m] \in DOMAIN did_to_farmer
    /\ did_to_farmer[mobile_to_did[m]].mobile = m
    /\ get_farmer_by_mobile(mobile_to_did, did_to_farmer, m)[1].mobile = m

(***************************************************************************)
(* Properties of the handlers that consult the directory.                  *)
(***************************************************************************)
\* the handler task has ended: it answered or it was torn down
HandlerEnded(h) == hreq[h].pc \in {"respond", "panicked"}

\* the ledger queries of a handler task, and those that failed
LedgerQueries(h) ==
  SelectSeq(hreq[h].calls, LAMBDA c : c[1] = "chain" /\ c[2] = "verify_farmer")
FailedQueries(h) == SelectSeq(LedgerQueries(h), LAMBDA c : ~c[3])

\* C38: for every farmer DID that is in the directory, whatever the length
\* of the DID string, verify_farmer answers with exists equal to the
\* verified flag of the farmer and does not query the ledger; for a DID that
\* is not in the directory a failed ledger query is answered with
\* exists = false and not with an error.
C38_VerifyFarmerAnswers ==
  \A h \in Handlers :
    (hreq[h].op = "verify_farmer" /\ HandlerEnded(h)) =>
      IF hreq[h].farmer_did \in DOMAIN did_to_farmer
      THEN /\ hreq[h].response.kind = "ok"
           /\ hreq[h].response.exists = did_to_farmer[hreq[h].farmer_did].verified
           /\ LedgerQueries(h) = <<>>
      ELSE FailedQueries(h) # <<>> =>
             /\ hreq[h].response.kind = "ok"
             /\ hreq[h].response.exists = FALSE

\* the request fails the directory check of its handler
FailsDirectoryCheck(q) ==
  \/ /\ q.op = "register_farmer"
     /\ q.mobile # None
     /\ \/ q.mobile[1] \notin DOMAIN mobile_to_did
        \/ ~did_to_farmer[mobile_to_did[q.mobile[1]]].verified
        \/ mobile_to_did[q.mobile[1]] # q.farmer_did
  \/ /\ q.op = "fpo_purchase"
     /\ \/ q.farmer_did \notin DOMAIN did_to_farmer
        \/ /\ q.mobile # None
           /\ \/ q.mobile[1] \notin DOMAIN mobile_to_did
              \/ mobile_to_did[q.mobile[1]] # q.farmer_did

\* C39: register_farmer and fpo_purchase make no external call (no write or
\* upload to the content store, no submission to the ledger) for a request
\* that fails the directory check, which is answered with 400; and no step
\* of the handlers changes the directory.
C39_RejectedBeforeExternalCalls ==
  [][hreq' # hreq =>
       /\ \A h \in Handlers :
            (FailsDirectoryCheck(hreq'[h]) /\ hreq'[h].pc # "check") =>
              /\ hreq'[h].calls = <<>>
              /\ hreq'[h].pc = "respond"
              /\ hreq'[h].response.kind = "bad_request"
       /\ UNCHANGED <<mobile_to_did, did_to_farmer, db_file>>]_vars

\* a register_farmer request with a verified mobile number of another DID
\* was answered with 400
C39_Witness ==
  \E h \in Handlers :
    /\ hreq[h].op = "register_farmer"
    /\ hreq[h].mobile = Some("m1")
    /\ hreq[h].farmer_did = "f3"
    /\ hreq[h].pc = "respond"
    /\ hreq[h].response.kind = "bad_request"
    /\ hreq[h].calls = <<>>

====
